---------------------------- MODULE Spec2Model ----------------------------
(***************************************************************************)
(* Retail orders cleaning pipeline (sql/clean_data.py):                    *)
(*   load_raw_data -> transform_columns -> to_csv -> summary.              *)
(* Text is a sequence of one-character strings, so that lower-casing,      *)
(* replacing, stripping, title-casing and parsing are computed character   *)
(* by character.  Numbers are exact rationals n/d (d > 0, lowest terms);   *)
(* a missing value is NaN (NaT for a date).                                *)
(***************************************************************************)
EXTENDS Integers, Sequences, FiniteSets, TLC

(***************************** bounds **************************************)
\* most data rows in the raw file
MaxRows == 2

(***************************** characters **********************************)
UpperChars == <<"A", "B", "C", "D", "E", "F", "G", "H", "I", "J", "K", "L", "M", "N", "O", "P", "Q", "R", "S", "T", "U", "V", "W", "X", "Y", "Z">>
LowerChars == <<"a", "b", "c", "d", "e", "f", "g", "h", "i", "j", "k", "l", "m", "n", "o", "p", "q", "r", "s", "t", "u", "v", "w", "x", "y", "z">>
DigitChars == <<"0", "1", "2", "3", "4", "5", "6", "7", "8", "9">>

IsUpper(c) == \E i \in 1..Len(UpperChars) : UpperChars[i] = c
IsLower(c) == \E i \in 1..Len(LowerChars) : LowerChars[i] = c
IsCased(c) == IsUpper(c) \/ IsLower(c)
IsDigit(c) == \E i \in 1..Len(DigitChars) : DigitChars[i] = c
IsSpace(c) == c = " "

CharLower(c) ==
    IF IsUpper(c)
    THEN LowerChars[CHOOSE i \in 1..Len(UpperChars) : UpperChars[i] = c]
    ELSE c

CharUpper(c) ==
    IF IsLower(c)
    THEN UpperChars[CHOOSE i \in 1..Len(LowerChars) : LowerChars[i] = c]
    ELSE c

(***************************** str methods *********************************)
\* str.lower()
str_lower(s) == [i \in 1..Len(s) |-> CharLower(s[i])]

\* str.replace(' ', '_')
str_replace(s, old, new) == [i \in 1..Len(s) |-> IF s[i] = old THEN new ELSE s[i]]

\* str.strip(): drop leading and trailing whitespace
str_strip(s) ==
    LET keep == {i \in 1..Len(s) : ~IsSpace(s[i])}
    IN  IF keep = {} THEN <<>>
        ELSE LET lo == CHOOSE i \in keep : \A j \in keep : i <= j
                 hi == CHOOSE i \in keep : \A j \in keep : j <= i
             IN  SubSeq(s, lo, hi)

\* str.title(): a cased character is upper-cased when the character before it
\* is not cased (or there is none), lower-cased otherwise
str_title(s) ==
    [i \in 1..Len(s) |->
        IF i = 1 \/ ~IsCased(s[i - 1]) THEN CharUpper(s[i]) ELSE CharLower(s[i])]

(***************************** numbers *************************************)
Abs(x) == IF x < 0 THEN -x ELSE x

RECURSIVE GCD(_, _)
GCD(a, b) == IF b = 0 THEN a ELSE GCD(b, a % b)

RECURSIVE Pow(_, _)
Pow(b, e) == IF e = 0 THEN 1 ELSE b * Pow(b, e - 1)

\* cell values: k is the kind, n/d the number (or yyyymmdd for a date), s the text
NaN == [k |-> "nan", n |-> 0, d |-> 1, s |-> <<>>]
NaT == [k |-> "nat", n |-> 0, d |-> 1, s |-> <<>>]
Str(t) == [k |-> "str", n |-> 0, d |-> 1, s |-> t]
Num(a, b) ==
    LET g == GCD(Abs(a), Abs(b))
        sgn == IF b < 0 THEN -1 ELSE 1
    IN  [k |-> "num", n |-> sgn * (a \div g), d |-> sgn * (b \div g), s |-> <<>>]
Timestamp(y, m, dd) == [k |-> "date", n |-> y * 10000 + m * 100 + dd, d |-> 1, s |-> <<>>]

IsNum(v) == v.k = "num"
isna(v) == v.k \in {"nan", "nat"}

\* float arithmetic of a Series: NaN propagates; x / 0 is inf or NaN, not an error
Inf == [k |-> "inf", n |-> 1, d |-> 1, s |-> <<>>]
NegInf == [k |-> "inf", n |-> -1, d |-> 1, s |-> <<>>]
num_mul(x, y) == IF IsNum(x) /\ IsNum(y) THEN Num(x.n * y.n, x.d * y.d) ELSE NaN
num_sub(x, y) == IF IsNum(x) /\ IsNum(y) THEN Num(x.n * y.d - y.n * x.d, x.d * y.d) ELSE NaN
num_div(x, y) ==
    IF IsNum(x) /\ IsNum(y)
    THEN IF y.n # 0 THEN Num(x.n * y.d, x.d * y.n)
         ELSE IF x.n > 0 THEN Inf ELSE IF x.n < 0 THEN NegInf ELSE NaN
    ELSE NaN

\* variant: a tie going up
RoundHalfUp(a, b) == (2 * a + b) \div (2 * b)

\* the integer nearest to a/b (b > 0), a tie going to the even neighbour
RoundHalfEven(a, b) ==
    LET q == a \div b
        r == a - q * b
    IN  IF 2 * r < b THEN q
        ELSE IF 2 * r > b THEN q + 1
        ELSE IF q % 2 = 0 THEN q ELSE q + 1

\* Series.round(decimals): numpy rounds x * 10^decimals to the nearest integer,
\* ties to even, and divides back
num_round(x, decimals) ==
    IF IsNum(x)
    THEN Num(RoundHalfEven(x.n * Pow(10, decimals), x.d), Pow(10, decimals))
    ELSE x

(***************************** parsing *************************************)
DigitVal(c) == (CHOOSE i \in 1..Len(DigitChars) : DigitChars[i] = c) - 1
IsDigits(t) == Len(t) > 0 /\ \A i \in 1..Len(t) : IsDigit(t[i])

RECURSIVE DigitsToNat(_)
DigitsToNat(t) ==
    IF t = <<>> THEN 0
    ELSE DigitsToNat(SubSeq(t, 1, Len(t) - 1)) * 10 + DigitVal(t[Len(t)])

RECURSIVE NatToDigits(_)
NatToDigits(x) ==
    IF x < 10 THEN <<DigitChars[x + 1]>>
    ELSE Append(NatToDigits(x \div 10), DigitChars[(x % 10) + 1])

\* an optional sign, digits, and at most one decimal point between digits
Unsigned(t) == IF Len(t) > 0 /\ t[1] = "-" THEN Tail(t) ELSE t
IsNumericText(t) ==
    LET u == Unsigned(t)
        dots == {i \in 1..Len(u) : u[i] = "."}
    IN  \/ IsDigits(u)
        \/ /\ Cardinality(dots) = 1
           /\ LET p == CHOOSE i \in dots : TRUE
              IN  IsDigits(SubSeq(u, 1, p - 1)) /\ IsDigits(SubSeq(u, p + 1, Len(u)))

ParseNumber(t) ==
    LET u == Unsigned(t)
        sgn == IF u = t THEN 1 ELSE -1
        dots == {i \in 1..Len(u) : u[i] = "."}
    IN  IF dots = {} THEN Num(sgn * DigitsToNat(u), 1)
        ELSE LET p == CHOOSE i \in dots : TRUE
                 frac == SubSeq(u, p + 1, Len(u))
                 scale == Pow(10, Len(frac))
             IN  Num(sgn * (DigitsToNat(SubSeq(u, 1, p - 1)) * scale + DigitsToNat(frac)), scale)

(***************************** dates ***************************************)
IsLeap(y) == (y % 4 = 0 /\ y % 100 # 0) \/ y % 400 = 0
DaysInMonth(y, m) ==
    IF m = 2 THEN (IF IsLeap(y) THEN 29 ELSE 28)
    ELSE IF m \in {4, 6, 9, 11} THEN 30 ELSE 31

\* a cell that parses under format='%Y-%m-%d': yyyy-mm-dd naming a calendar day
IsDateText(t) ==
    /\ Len(t) = 10
    /\ t[5] = "-" /\ t[8] = "-"
    /\ \A i \in {1, 2, 3, 4, 6, 7, 9, 10} : IsDigit(t[i])
    /\ LET y == DigitsToNat(SubSeq(t, 1, 4))
           m == DigitsToNat(SubSeq(t, 6, 7))
           dd == DigitsToNat(SubSeq(t, 9, 10))
       IN  y >= 1 /\ m \in 1..12 /\ dd \in 1..DaysInMonth(y, m)

ParseDate(t) ==
    Timestamp(DigitsToNat(SubSeq(t, 1, 4)), DigitsToNat(SubSeq(t, 6, 7)),
              DigitsToNat(SubSeq(t, 9, 10)))

\* pd.to_datetime(col, format='%Y-%m-%d'): a missing cell becomes NaT; any other
\* cell must parse, or the call raises ValueError
to_datetime_raises(col) ==
    \E i \in 1..Len(col) : ~isna(col[i]) /\ ~(col[i].k = "str" /\ IsDateText(col[i].s))
to_datetime(col) ==
    [i \in 1..Len(col) |-> IF isna(col[i]) THEN NaT ELSE ParseDate(col[i].s)]

YearOf(v) == v.n \div 10000
MonthOf(v) == (v.n \div 100) % 100
DayOf(v) == v.n % 100

\* variant: a message that names no row
no_position(col) == 0

\* the row pd.to_datetime names in its message: the first one it cannot parse
first_bad_date(col) ==
    CHOOSE i \in 1..Len(col) :
        /\ ~isna(col[i]) /\ ~(col[i].k = "str" /\ IsDateText(col[i].s))
        /\ \A x \in 1..(i - 1) :
               isna(col[x]) \/ (col[x].k = "str" /\ IsDateText(col[x].s))

MonthNames ==
    << <<"J", "a", "n", "u", "a", "r", "y">>, <<"F", "e", "b", "r", "u", "a", "r", "y">>, <<"M", "a", "r", "c", "h">>, <<"A", "p", "r", "i", "l">>, <<"M", "a", "y">>, <<"J", "u", "n", "e">>,
       <<"J", "u", "l", "y">>, <<"A", "u", "g", "u", "s", "t">>, <<"S", "e", "p", "t", "e", "m", "b", "e", "r">>, <<"O", "c", "t", "o", "b", "e", "r">>, <<"N", "o", "v", "e", "m", "b", "e", "r">>, <<"D", "e", "c", "e", "m", "b", "e", "r">> >>

\* the .dt accessors; NaT gives a missing value
dt_year(v) == IF v.k = "date" THEN Num(YearOf(v), 1) ELSE NaN
dt_month(v) == IF v.k = "date" THEN Num(MonthOf(v), 1) ELSE NaN
dt_strftime_B(v) == IF v.k = "date" THEN Str(MonthNames[MonthOf(v)]) ELSE NaN
\* variant: the quarter counted from month 0
dt_quarter_from_zero(v) == IF v.k = "date" THEN Num((MonthOf(v) \div 3) + 1, 1) ELSE NaN

dt_quarter(v) ==
    IF v.k = "date"
    THEN LET m == MonthOf(v)
         IN  Num(IF m <= 3 THEN 1 ELSE IF m <= 6 THEN 2 ELSE IF m <= 9 THEN 3 ELSE 4, 1)
    ELSE NaN

\* a Timestamp rendered as text, yyyy-mm-dd
Pad(t, w) == IF Len(t) >= w THEN t ELSE [i \in 1..w |-> IF i <= w - Len(t) THEN "0" ELSE t[i - (w - Len(t))]]
FormatDate(v) ==
    Pad(NatToDigits(YearOf(v)), 4) \o <<"-">> \o Pad(NatToDigits(MonthOf(v)), 2)
        \o <<"-">> \o Pad(NatToDigits(DayOf(v)), 2)

(***************************** tables **************************************)
\* a DataFrame: column names in order, and the rows, each aligned to the columns
NRows(t) == Len(t.data)
HasColumn(t, name) == \E j \in 1..Len(t.columns) : t.columns[j] = name
ColumnIndex(t, name) ==
    CHOOSE j \in 1..Len(t.columns) :
        t.columns[j] = name /\ \A h \in 1..(j - 1) : t.columns[h] # name
\* df[name]
getitem(t, name) == [i \in 1..NRows(t) |-> t.data[i][ColumnIndex(t, name)]]
\* df[name] = vals: an existing column is overwritten in place, a new one is appended
setitem(t, name, vals) ==
    IF HasColumn(t, name)
    THEN [t EXCEPT !.data = [i \in 1..NRows(t) |->
                                [t.data[i] EXCEPT ![ColumnIndex(t, name)] = vals[i]]]]
    ELSE [columns |-> Append(t.columns, name),
          data |-> [i \in 1..NRows(t) |-> Append(t.data[i], vals[i])]]

(***************************** column names ********************************)
order_id == <<"o", "r", "d", "e", "r", "_", "i", "d">>
order_date == <<"o", "r", "d", "e", "r", "_", "d", "a", "t", "e">>
ship_mode == <<"s", "h", "i", "p", "_", "m", "o", "d", "e">>
segment == <<"s", "e", "g", "m", "e", "n", "t">>
country == <<"c", "o", "u", "n", "t", "r", "y">>
city == <<"c", "i", "t", "y">>
state == <<"s", "t", "a", "t", "e">>
postal_code == <<"p", "o", "s", "t", "a", "l", "_", "c", "o", "d", "e">>
region == <<"r", "e", "g", "i", "o", "n">>
category == <<"c", "a", "t", "e", "g", "o", "r", "y">>
sub_category == <<"s", "u", "b", "_", "c", "a", "t", "e", "g", "o", "r", "y">>
product_id == <<"p", "r", "o", "d", "u", "c", "t", "_", "i", "d">>
cost_price == <<"c", "o", "s", "t", "_", "p", "r", "i", "c", "e">>
list_price == <<"l", "i", "s", "t", "_", "p", "r", "i", "c", "e">>
quantity == <<"q", "u", "a", "n", "t", "i", "t", "y">>
discount_percent == <<"d", "i", "s", "c", "o", "u", "n", "t", "_", "p", "e", "r", "c", "e", "n", "t">>
discount == <<"d", "i", "s", "c", "o", "u", "n", "t">>
sale_price == <<"s", "a", "l", "e", "_", "p", "r", "i", "c", "e">>
profit == <<"p", "r", "o", "f", "i", "t">>
profit_margin == <<"p", "r", "o", "f", "i", "t", "_", "m", "a", "r", "g", "i", "n">>
year == <<"y", "e", "a", "r">>
month == <<"m", "o", "n", "t", "h">>
month_name == <<"m", "o", "n", "t", "h", "_", "n", "a", "m", "e">>
quarter == <<"q", "u", "a", "r", "t", "e", "r">>

\* the header of the raw extract, and the field each of its columns holds
RawSchema ==
    << <<"O", "r", "d", "e", "r", " ", "I", "d">>, <<"O", "r", "d", "e", "r", " ", "D", "a", "t", "e">>, <<"S", "h", "i", "p", " ", "M", "o", "d", "e">>, <<"S", "e", "g", "m", "e", "n", "t">>, <<"C", "o", "u", "n", "t", "r", "y">>,
       <<"C", "i", "t", "y">>, <<"S", "t", "a", "t", "e">>, <<"P", "o", "s", "t", "a", "l", " ", "C", "o", "d", "e">>, <<"R", "e", "g", "i", "o", "n">>, <<"C", "a", "t", "e", "g", "o", "r", "y">>,
       <<"S", "u", "b", " ", "C", "a", "t", "e", "g", "o", "r", "y">>, <<"P", "r", "o", "d", "u", "c", "t", " ", "I", "d">>, <<"c", "o", "s", "t", " ", "p", "r", "i", "c", "e">>, <<"L", "i", "s", "t", " ", "P", "r", "i", "c", "e">>,
       <<"Q", "u", "a", "n", "t", "i", "t", "y">>, <<"D", "i", "s", "c", "o", "u", "n", "t", " ", "P", "e", "r", "c", "e", "n", "t">> >>
RawFields ==
    << "order_id", "order_date", "ship_mode", "segment", "country", "city", "state",
       "postal_code", "region", "category", "sub_category", "product_id",
       "cost_price", "list_price", "quantity", "discount_percent" >>

(***************************** load_raw_data *******************************)
\* the na_values the code passes to read_csv
na_values == { <<"N", "o", "t", " ", "A", "v", "a", "i", "l", "a", "b", "l", "e">>, <<"u", "n", "k", "n", "o", "w", "n">>, <<"N", "A">>, <<"N", "/", "A">>, <<>> }

\* read_csv is called without keep_default_na=False, so pandas' own NA strings
\* stay in force next to na_values
STR_NA_VALUES ==
    { <<>>, <<"#", "N", "/", "A">>, <<"#", "N", "/", "A", " ", "N", "/", "A">>, <<"#", "N", "A">>, <<"-", "1", ".", "#", "I", "N", "D">>, <<"-", "1", ".", "#", "Q", "N", "A", "N">>, <<"-", "N", "a", "N">>,
      <<"-", "n", "a", "n">>, <<"1", ".", "#", "I", "N", "D">>, <<"1", ".", "#", "Q", "N", "A", "N">>, <<"<", "N", "A", ">">>, <<"N", "/", "A">>, <<"N", "A">>, <<"N", "U", "L", "L">>,
      <<"N", "a", "N">>, <<"N", "o", "n", "e">>, <<"n", "/", "a">>, <<"n", "a", "n">>, <<"n", "u", "l", "l">> }

IsNACell(t) == t \in (na_values \cup STR_NA_VALUES)

\* read_csv infers one type per column: numbers when every cell that is not
\* missing is numeric (a column with no value at all is float NaN), text otherwise
ColumnIsNumeric(file, j) ==
    \A i \in 1..Len(file.rows) :
        IsNACell(file.rows[i][j]) \/ IsNumericText(file.rows[i][j])

ReadCell(file, i, j) ==
    LET t == file.rows[i][j]
    IN  IF IsNACell(t) THEN NaN
        ELSE IF ColumnIsNumeric(file, j) THEN ParseNumber(t)
        ELSE Str(t)

\* pd.read_csv(input_path, na_values=na_values): the header gives the column
\* names as written, every data line gives one row
read_csv(file) ==
    [columns |-> file.header,
     data |-> [i \in 1..Len(file.rows) |->
                  [j \in 1..Len(file.header) |-> ReadCell(file, i, j)]]]

\* variant: on_bad_lines and an empty file tolerated, only a missing file raises
read_csv_raises_missing_only(file) == IF ~file.exists THEN "FileNotFoundError" ELSE ""

\* what pd.read_csv raises: no file at the path; a file without a header line;
\* a data line with more fields than the line before it (the first data line
\* may be longer than the header, its extra leading fields become the index)
read_csv_raises(file) ==
    IF ~file.exists THEN "FileNotFoundError"
    ELSE IF file.header = <<>> THEN "EmptyDataError"
    ELSE IF \E i \in 2..Len(file.rows) : Len(file.rows[i]) > Len(file.rows[i - 1])
    THEN "ParserError"
    ELSE ""

load_raw_data(file) == read_csv(file)

(***************************** transform_columns ***************************)
\* variant: only the columns of a fixed list are renamed
rename_listed_columns(t) ==
    [t EXCEPT !.columns =
        [j \in 1..Len(t.columns) |->
            IF \E h \in 1..Len(RawSchema) : RawSchema[h] = t.columns[j]
            THEN str_replace(str_lower(t.columns[j]), " ", "_")
            ELSE t.columns[j]]]

\* df.columns.str.lower().str.replace(' ', '_'), over every column
rename_columns(t) ==
    [t EXCEPT !.columns =
        [j \in 1..Len(t.columns) |-> str_replace(str_lower(t.columns[j]), " ", "_")]]

\* arithmetic on a column of text raises TypeError
IsTextColumn(col) == \E i \in 1..Len(col) : col[i].k = "str"

Hundred == Num(100, 1)
Zero == Num(0, 1)

\* variant: the percentage taken as a factor
calc_discount_factor(lp, dp) == num_mul(lp, dp)

calc_discount(lp, dp) == num_div(num_mul(lp, dp), Hundred)
calc_sale_price(lp, disc) == num_sub(lp, disc)
calc_profit(sp, cp) == num_sub(sp, cp)
\* variant: the division without the np.where guard
calc_profit_margin_unguarded(pr, sp) == num_round(num_mul(num_div(pr, sp), Hundred), 2)

\* np.where(sale_price != 0, (profit / sale_price * 100).round(2), 0); NaN != 0
calc_profit_margin(pr, sp) ==
    IF sp # Zero THEN num_round(num_mul(num_div(pr, sp), Hundred), 2) ELSE Zero

\* lines 42-57: the four monetary and the four calendar columns
derive_raises(t) ==
    IF ~HasColumn(t, list_price) \/ ~HasColumn(t, discount_percent) THEN "KeyError"
    ELSE IF IsTextColumn(getitem(t, list_price)) \/ IsTextColumn(getitem(t, discount_percent))
    THEN "TypeError"
    ELSE IF ~HasColumn(t, cost_price) THEN "KeyError"
    ELSE IF IsTextColumn(getitem(t, cost_price)) THEN "TypeError"
    ELSE ""

\* variant: profit taken from the first row's sale_price (.iloc[0] broadcast)
derive_first_sale_price(t) ==
    LET rows == 1..NRows(t)
        lp == getitem(t, list_price)
        dp == getitem(t, discount_percent)
        t1 == setitem(t, discount, [i \in rows |-> calc_discount(lp[i], dp[i])])
        t2 == setitem(t1, sale_price,
                      [i \in rows |-> calc_sale_price(getitem(t1, list_price)[i],
                                                      getitem(t1, discount)[i])])
        t3 == setitem(t2, profit,
                      [i \in rows |-> calc_profit(getitem(t2, sale_price)[1],
                                                  getitem(t2, cost_price)[i])])
        t4 == setitem(t3, profit_margin,
                      [i \in rows |-> calc_profit_margin(getitem(t3, profit)[i],
                                                         getitem(t3, sale_price)[i])])
        t5 == setitem(t4, year, [i \in rows |-> dt_year(getitem(t4, order_date)[i])])
        t6 == setitem(t5, month, [i \in rows |-> dt_month(getitem(t5, order_date)[i])])
        t7 == setitem(t6, month_name,
                      [i \in rows |-> dt_strftime_B(getitem(t6, order_date)[i])])
    IN  setitem(t7, quarter, [i \in rows |-> dt_quarter(getitem(t7, order_date)[i])])

derive(t) ==
    LET rows == 1..NRows(t)
        lp == getitem(t, list_price)
        dp == getitem(t, discount_percent)
        t1 == setitem(t, discount, [i \in rows |-> calc_discount(lp[i], dp[i])])
        t2 == setitem(t1, sale_price,
                      [i \in rows |-> calc_sale_price(getitem(t1, list_price)[i],
                                                      getitem(t1, discount)[i])])
        t3 == setitem(t2, profit,
                      [i \in rows |-> calc_profit(getitem(t2, sale_price)[i],
                                                  getitem(t2, cost_price)[i])])
        t4 == setitem(t3, profit_margin,
                      [i \in rows |-> calc_profit_margin(getitem(t3, profit)[i],
                                                         getitem(t3, sale_price)[i])])
        t5 == setitem(t4, year, [i \in rows |-> dt_year(getitem(t4, order_date)[i])])
        t6 == setitem(t5, month, [i \in rows |-> dt_month(getitem(t5, order_date)[i])])
        t7 == setitem(t6, month_name,
                      [i \in rows |-> dt_strftime_B(getitem(t6, order_date)[i])])
    IN  setitem(t7, quarter, [i \in rows |-> dt_quarter(getitem(t7, order_date)[i])])

\* the .str accessor exists only on a column of text: a column holding numbers,
\* or no value at all (float NaN), raises AttributeError; an empty column is text
str_accessor_raises(col) == Len(col) > 0 /\ ~IsTextColumn(col)

\* variant: .str.strip() alone
clean_cell_strip_only(v) == IF v.k = "str" THEN Str(str_strip(v.s)) ELSE v

\* .str.strip().str.title() on one cell; a missing cell stays missing
clean_cell(v) == IF v.k = "str" THEN Str(str_title(str_strip(v.s))) ELSE v

clean_column(t, name) ==
    setitem(t, name, [i \in 1..NRows(t) |-> clean_cell(getitem(t, name)[i])])

CleanedColumns == <<category, sub_category, region>>

\* variant: lines 60-62 in the reverse order, the last column that fails decides
clean_categorical_raises_reversed(t) ==
    LET bad == {j \in 1..Len(CleanedColumns) :
                   \/ ~HasColumn(t, CleanedColumns[j])
                   \/ str_accessor_raises(getitem(t, CleanedColumns[j]))}
    IN  IF bad = {} THEN ""
        ELSE LET j == CHOOSE x \in bad : \A y \in bad : y <= x
             IN  IF ~HasColumn(t, CleanedColumns[j]) THEN "KeyError" ELSE "AttributeError"

\* lines 60-62, in order; the first column that fails decides the error
clean_categorical_raises(t) ==
    LET bad == {j \in 1..Len(CleanedColumns) :
                   \/ ~HasColumn(t, CleanedColumns[j])
                   \/ str_accessor_raises(getitem(t, CleanedColumns[j]))}
    IN  IF bad = {} THEN ""
        ELSE LET j == CHOOSE x \in bad : \A y \in bad : x <= y
             IN  IF ~HasColumn(t, CleanedColumns[j]) THEN "KeyError" ELSE "AttributeError"

clean_categorical(t) ==
    clean_column(clean_column(clean_column(t, category), sub_category), region)

(***************************** to_csv **************************************)
\* one written cell: a missing value is written as the empty text, a date as
\* yyyy-mm-dd, text as it is; a number stands for its decimal text
to_csv_cell(v) ==
    IF isna(v) THEN Str(<<>>)
    ELSE IF v.k = "date" THEN Str(FormatDate(v))
    ELSE v

\* variant: index=True, the row index written as a first, unnamed column
to_csv_with_index(t, old) ==
    [exists |-> TRUE,
     header |-> <<<<>>>> \o t.columns,
     rows |-> [i \in 1..NRows(t) |->
                  <<Num(i - 1, 1)>> \o [j \in 1..Len(t.columns) |-> to_csv_cell(t.data[i][j])]]]

\* variant: mode 'a', the header and the lines added after what the file holds
to_csv_append(t, old) ==
    [exists |-> TRUE,
     header |-> IF old.exists THEN old.header ELSE t.columns,
     rows |-> (IF old.exists
               THEN Append(old.rows, [j \in 1..Len(t.columns) |-> Str(t.columns[j])])
               ELSE <<>>)
              \o [i \in 1..NRows(t) |->
                     [j \in 1..Len(t.columns) |-> to_csv_cell(t.data[i][j])]]]

\* df.to_csv(output_path, index=False): mode 'w', the header then one line per row
to_csv(t, old) ==
    [exists |-> TRUE,
     header |-> t.columns,
     rows |-> [i \in 1..NRows(t) |->
                  [j \in 1..Len(t.columns) |-> to_csv_cell(t.data[i][j])]]]

(***************************** inputs **************************************)
Swap(q, a, b) == [q EXCEPT ![a] = q[b], ![b] = q[a]]
Shout(q) == [j \in 1..Len(q) |-> [i \in 1..Len(q[j]) |-> CharUpper(q[j][i])]]

\* the expected header; the same in capitals; with one column more; with two
\* columns in the other order; without Discount Percent; without Category; with
\* two columns more whose names differ in case only
Headers ==
    { [names |-> RawSchema, fields |-> RawFields],
      [names |-> Shout(RawSchema), fields |-> RawFields],
      [names |-> Append(RawSchema, <<"N", "o", "t", "e", "s">>), fields |-> Append(RawFields, "notes")],
      [names |-> Swap(RawSchema, 9, 10), fields |-> Swap(RawFields, 9, 10)],
      [names |-> SubSeq(RawSchema, 1, 15), fields |-> SubSeq(RawFields, 1, 15)],
      [names |-> SubSeq(RawSchema, 1, 9) \o SubSeq(RawSchema, 11, 16),
       fields |-> SubSeq(RawFields, 1, 9) \o SubSeq(RawFields, 11, 16)],
      [names |-> RawSchema \o << <<"N", "o", "t", "e", "s">>, <<"N", "O", "T", "E", "S">> >>,
       fields |-> RawFields \o <<"notes", "notes">>] }

\* first line of the sample data
BaseOrder ==
    [order_id |-> <<"1">>, order_date |-> <<"2", "0", "2", "3", "-", "0", "3", "-", "0", "1">>, ship_mode |-> <<"S", "e", "c", "o", "n", "d", " ", "C", "l", "a", "s", "s">>,
     segment |-> <<"C", "o", "n", "s", "u", "m", "e", "r">>, country |-> <<"U", "n", "i", "t", "e", "d", " ", "S", "t", "a", "t", "e", "s">>, city |-> <<"H", "e", "n", "d", "e", "r", "s", "o", "n">>,
     state |-> <<"K", "e", "n", "t", "u", "c", "k", "y">>, postal_code |-> <<"4", "2", "4", "2", "0">>, region |-> <<"S", "o", "u", "t", "h">>,
     category |-> <<"F", "u", "r", "n", "i", "t", "u", "r", "e">>, sub_category |-> <<"B", "o", "o", "k", "c", "a", "s", "e", "s">>,
     product_id |-> <<"F", "U", "R", "-", "B", "O", "-", "1", "0", "0", "0", "1", "7", "9", "8">>, cost_price |-> <<"2", "4", "0">>, list_price |-> <<"2", "6", "0">>,
     quantity |-> <<"2">>, discount_percent |-> <<"2">>, notes |-> <<"g", "i", "f", "t">>]

\* list_price, discount_percent, cost_price cells
PriceCells ==
    { << <<"0">>, <<"5">>, <<"0">> >>,          \* nothing charged
      << <<"3", "2">>, <<"1", "0", "0">>, <<"3">> >>,       \* fully discounted
      << <<"3", "2">>, <<"0">>, <<"3">> >>,         \* margin 90.625
      << <<"3", "2">>, <<"0">>, <<"3", "3">> >>,        \* margin -3.125
      << <<"1", "9", ".", "5">>, <<"1", "0">>, <<"1", "2">> >>,
      << <<"N", "A">>, <<"2">>, <<"2", "4", "0">> >> }      \* no list price

DateCells ==
    { <<"2", "0", "2", "2", "-", "1", "2", "-", "3", "1">>, <<"2", "0", "2", "4", "-", "0", "2", "-", "2", "9">>, <<"2", "0", "2", "3", "-", "0", "8", "-", "1", "5">>,
      <<"N", "A">>, <<"2", "0", "2", "3", "-", "0", "2", "-", "3", "0">>, <<"0", "3", "/", "0", "1", "/", "2", "0", "2", "3">> }

\* ship_mode, region, category, sub_category cells
TextCells ==
    { << <<"N", "o", "t", " ", "A", "v", "a", "i", "l", "a", "b", "l", "e">>, <<" ", "w", "e", "s", "t", " ">>, <<" ", "o", "f", "f", "i", "c", "e", " ", "s", "u", "p", "p", "l", "i", "e", "s", " ">>, <<"L", "A", "B", "E", "L", "S">> >>,
      << <<"u", "n", "k", "n", "o", "w", "n">>, <<"N", "A">>, <<"N", "/", "A">>, <<>> >>,
      << <<"n", "/", "a">>, <<"S", "o", "u", "t", "h">>, <<"m", "e", "n", "'", "s", " ", "w", "e", "a", "r">>, <<"C", "h", "a", "i", "r", "s">> >>,
      << <<"N", "U", "L", "L">>, <<"n", "o", "r", "t", "h", " ", "e", "a", "s", "t">>, <<"N", "o", "t", " ", "A", "v", "a", "i", "l", "a", "b", "l", "e">>, <<"a", "r", "t">> >> }

Orders ==
    {BaseOrder}
    \cup {[BaseOrder EXCEPT !.list_price = p[1], !.discount_percent = p[2],
                            !.cost_price = p[3]] : p \in PriceCells}
    \cup {[BaseOrder EXCEPT !.order_date = c] : c \in DateCells}
    \cup {[BaseOrder EXCEPT !.ship_mode = c[1], !.region = c[2], !.category = c[3],
                            !.sub_category = c[4]] : c \in TextCells}

OrderLists == UNION {[1..n -> Orders] : n \in 0..MaxRows}

\* the raw file with header h and one line per order
RawFile(h, orders) ==
    [exists |-> TRUE,
     header |-> h.names,
     rows |-> [i \in 1..Len(orders) |->
                  [j \in 1..Len(h.fields) |-> orders[i][h.fields[j]]]]]

\* what a path holds: nothing, or a file
NoFile == [exists |-> FALSE, header |-> <<>>, rows |-> <<>>]
\* a file of no bytes
EmptyFile == [exists |-> TRUE, header |-> <<>>, rows |-> <<>>]
\* a file whose second data line has one field more than its first
RaggedFile ==
    LET f == RawFile([names |-> RawSchema, fields |-> RawFields], <<BaseOrder, BaseOrder>>)
    IN  [f EXCEPT !.rows[2] = Append(f.rows[2], <<"x">>)]

\* every list of orders under the expected header
FullFiles ==
    {RawFile(h, o) : h \in {x \in Headers : x.names = RawSchema}, o \in OrderLists}

\* the shorter lists under the expected header, at most one order under the
\* other headers, and the inputs read_csv cannot read
SmallFiles ==
    {f \in FullFiles : Len(f.rows) < MaxRows}
    \cup {RawFile(h, o) :
            h \in {x \in Headers : x.names # RawSchema}, o \in {q \in OrderLists : Len(q) <= 1}}
    \cup {NoFile, EmptyFile, RaggedFile}

RawFiles == FullFiles \cup SmallFiles

\* an earlier export at the output path
OldFile == [exists |-> TRUE, header |-> <<order_id>>, rows |-> << <<Num(7, 1)>>, <<Num(8, 1)>> >>]

NoTable == [columns |-> <<>>, data |-> <<>>]

\* what surrounds a call: the output path's content, whether open(output_path, 'w')
\* and the writes succeed, and how many calls the caller makes after this one
Environments ==
    {[before |-> b, disk |-> d, calls |-> 0] :
        b \in {NoFile, OldFile}, d \in {"ok", "unwritable", "fails_midway"}}
    \cup {[before |-> b, disk |-> "ok", calls |-> 1] : b \in {NoFile, OldFile}}

DefaultEnvironment == [before |-> NoFile, disk |-> "ok", calls |-> 0]

(***************************** transform_columns as a function *************)
\* the exception transform_columns(t) ends with, "" when it returns
transform_columns_raises(t) ==
    LET t1 == rename_columns(t)
    IN  IF ~HasColumn(t1, order_date) THEN "KeyError"
        ELSE IF to_datetime_raises(getitem(t1, order_date)) THEN "ValueError"
        ELSE LET t2 == setitem(t1, order_date, to_datetime(getitem(t1, order_date)))
             IN  IF derive_raises(t2) # "" THEN derive_raises(t2)
                 ELSE clean_categorical_raises(derive(t2))

\* lines 33-64 on a table for which they raise nothing
transform_columns(t) ==
    LET t1 == rename_columns(t)
        t2 == setitem(t1, order_date, to_datetime(getitem(t1, order_date)))
        t3 == derive(t2)
    IN  clean_categorical(t3)

\* what a write that fails part-way leaves at the path: the file opened with
\* mode 'w' is truncated, then holds the header and fewer lines than the table
partial_writes(t, old) ==
    {EmptyFile}
    \cup {[to_csv(t, old) EXCEPT !.rows = SubSeq(to_csv(t, old).rows, 1, n)] :
            n \in 0..(NRows(t) - 1)}

(***************************** clean_retail_orders *************************)
VARIABLES
    pc,          \* the statement clean_retail_orders is about to run
    raw_file,    \* content of input_path
    out_file,    \* content of output_path
    loaded,      \* the table load_raw_data returned, the argument of transform_columns
    df,          \* the table transform_columns works on, later the one returned
    raised,      \* the exception that ended the run, "" when none
    raised_row,  \* the row the exception's message names, 0 when it names none
    stdout,      \* the lines printed
    disk,        \* whether output_path can be opened and written
    calls,       \* calls of clean_retail_orders the caller still makes after this one
    out_before,  \* content of output_path when the call began
    first,       \* what the earlier call left: its output file and returned table
    stages,      \* the stages this call has completed, in order
    argv,        \* the arguments on the command line of clean_data.py
    input_path,  \* the path clean_retail_orders is called with as input_path
    output_path, \* the path clean_retail_orders is called with as output_path
    exit_code,   \* the exit status of the process, -1 while it runs
    seed_pc,      \* the statement seed_database is about to run
    environ,      \* os.environ after load_dotenv()
    csv_file,     \* content of csv_path
    database,     \* the Supabase database: the orders table and the order_summary view
    db_before,    \* the database when seed_database was called
    db_fault,     \* the database operation that fails in this run, "none" when none
    database_url, \* the local database_url, <<>> while unassigned
    seed_df,      \* the local df of seed_database
    seed_log,     \* the calls made on sqlalchemy and on the engine, in order
    seed_raised,  \* the exception that ended seed_database
    seed_result,  \* what seed_database returned, -1 while it has not
    query_pc,     \* the statement of the dashboard helper, or of run_query, about to run
    helper,       \* the helper of utils/database.py that was called
    imports,      \* which of streamlit and psycopg2 could be imported
    secrets,      \* what st.secrets["database"]["url"] gives
    query_environ,\* os.environ as the dashboard sees it
    server,       \* whether the database accepts connections, and its answer to the query
    conn,         \* the local conn of run_query
    query_log,    \* the calls made on psycopg2, pandas, the connection and streamlit
    query_df,     \* what run_query returned to the helper
    query_return  \* what the helper returned or raised

pipeline_vars == <<pc, raw_file, out_file, loaded, df, raised, raised_row, stdout,
                   disk, calls, out_before, first, stages>>
cli_vars == <<argv, input_path, output_path, exit_code>>
seed_vars == <<seed_pc, environ, csv_file, database, db_before, db_fault, database_url,
               seed_df, seed_log, seed_raised, seed_result>>

query_vars == <<query_pc, helper, imports, secrets, query_environ, server, conn, query_log,
                query_df, query_return>>

vars == <<pipeline_vars, cli_vars, seed_vars, query_vars>>

\* what the statements of clean_retail_orders leave alone
not_pipeline == <<cli_vars, seed_vars, query_vars>>
\* what the statements of seed_database leave alone
not_seed == <<pipeline_vars, cli_vars, query_vars>>
\* what the dashboard helpers leave alone
not_query == <<pipeline_vars, cli_vars, seed_vars>>

NoException == [type |-> "", message |-> <<>>]
NoDatabase == [orders |-> <<>>, view |-> FALSE]

\* seed_database is not running
NotSeeding ==
    /\ seed_pc = "idle"
    /\ environ = {}
    /\ csv_file = NoFile
    /\ database = NoDatabase
    /\ db_before = NoDatabase
    /\ db_fault = "none"
    /\ database_url = <<>>
    /\ seed_df = NoTable
    /\ seed_log = <<>>
    /\ seed_raised = NoException
    /\ seed_result = -1

NotReturned == [type |-> "", items |-> <<>>]

\* no dashboard helper is running
NotQuerying ==
    /\ query_pc = "idle"
    /\ helper = ""
    /\ imports = [streamlit |-> FALSE, psycopg2 |-> FALSE]
    /\ secrets = [raises |-> "FileNotFoundError", url |-> ""]
    /\ query_environ = {}
    /\ server = [up |-> FALSE, raises |-> FALSE, answer |-> NoTable]
    /\ conn = "unassigned"
    /\ query_log = <<>>
    /\ query_df = NoTable
    /\ query_return = NotReturned

\* clean_retail_orders called as a function, as the tests call it
CalledAsFunction ==
    /\ argv = <<>>
    /\ input_path = "orders.csv"
    /\ output_path = "orders_clean.csv"
    /\ exit_code = -1

Init ==
    /\ pc = "load_raw_data"
    /\ \E e \in Environments :
         /\ out_file = e.before
         /\ out_before = e.before
         /\ disk = e.disk
         /\ calls = e.calls
         /\ raw_file \in (IF e = DefaultEnvironment THEN RawFiles ELSE SmallFiles)
    /\ loaded = NoTable
    /\ df = NoTable
    /\ raised = ""
    /\ raised_row = 0
    /\ stdout = <<>>
    /\ first = <<>>
    /\ stages = <<>>
    /\ CalledAsFunction
    /\ NotSeeding
    /\ NotQuerying

\* an exception leaves the function: its local table is gone
RaiseAt(e, row) ==
    /\ pc' = "raised"
    /\ raised' = e
    /\ raised_row' = row
    /\ df' = NoTable
    /\ UNCHANGED stages

Raise(e) == RaiseAt(e, 0)

Completed(stage) == stages' = Append(stages, stage)

\* variant: output_path opened for writing before the raw file is loaded
LoadRawDataAfterOpen ==
    /\ pc = "load_raw_data"
    /\ out_file' = EmptyFile
    /\ IF read_csv_raises(raw_file) # ""
       THEN /\ Raise(read_csv_raises(raw_file))
            /\ UNCHANGED loaded
       ELSE /\ loaded' = load_raw_data(raw_file)
            /\ pc' = "rename"
            /\ Completed("ingestion")
            /\ UNCHANGED <<df, raised, raised_row>>
    /\ UNCHANGED not_pipeline
    /\ UNCHANGED <<raw_file, stdout, disk, calls, out_before, first>>

\* line 81: df = load_raw_data(input_path)
LoadRawData ==
    /\ pc = "load_raw_data"
    /\ IF read_csv_raises(raw_file) # ""
       THEN /\ Raise(read_csv_raises(raw_file))
            /\ UNCHANGED loaded
       ELSE /\ loaded' = load_raw_data(raw_file)
            /\ pc' = "rename"
            /\ Completed("ingestion")
            /\ UNCHANGED <<df, raised, raised_row>>
    /\ UNCHANGED not_pipeline
    /\ UNCHANGED <<raw_file, out_file, stdout, disk, calls, out_before, first>>

\* variant: line 33 left out, the columns of the argument itself are renamed
RenameInPlace ==
    /\ pc = "rename"
    /\ loaded' = rename_columns(loaded)
    /\ df' = rename_columns(loaded)
    /\ pc' = "to_datetime"
    /\ Completed("rename")
    /\ UNCHANGED not_pipeline
    /\ UNCHANGED <<raw_file, out_file, raised, raised_row, stdout,
                   disk, calls, out_before, first>>

\* lines 33-36: copy the argument, rename the columns of the copy
Rename ==
    /\ pc = "rename"
    /\ df' = rename_columns(loaded)
    /\ pc' = "to_datetime"
    /\ Completed("rename")
    /\ UNCHANGED not_pipeline
    /\ UNCHANGED <<raw_file, out_file, loaded, raised, raised_row, stdout,
                   disk, calls, out_before, first>>

\* line 39: df['order_date'] = pd.to_datetime(df['order_date'], format='%Y-%m-%d')
ToDatetime ==
    /\ pc = "to_datetime"
    /\ IF ~HasColumn(df, order_date) THEN Raise("KeyError")
       ELSE IF to_datetime_raises(getitem(df, order_date))
       THEN RaiseAt("ValueError", first_bad_date(getitem(df, order_date)))
       ELSE /\ df' = setitem(df, order_date, to_datetime(getitem(df, order_date)))
            /\ pc' = "derive"
            /\ Completed("date_coercion")
            /\ UNCHANGED <<raised, raised_row>>
    /\ UNCHANGED not_pipeline
    /\ UNCHANGED <<raw_file, out_file, loaded, stdout, disk, calls, out_before, first>>

\* variant: lines 60-62 left out, derivation hands its table to the export
DeriveThenExport ==
    /\ pc = "derive"
    /\ IF derive_raises(df) # "" THEN Raise(derive_raises(df))
       ELSE /\ df' = derive(df)
            /\ pc' = "to_csv"
            /\ Completed("derivation")
            /\ UNCHANGED <<raised, raised_row>>
    /\ UNCHANGED not_pipeline
    /\ UNCHANGED <<raw_file, out_file, loaded, stdout, disk, calls, out_before, first>>

\* lines 42-57
Derive ==
    /\ pc = "derive"
    /\ IF derive_raises(df) # "" THEN Raise(derive_raises(df))
       ELSE /\ df' = derive(df)
            /\ pc' = "clean_categorical"
            /\ Completed("derivation")
            /\ UNCHANGED <<raised, raised_row>>
    /\ UNCHANGED not_pipeline
    /\ UNCHANGED <<raw_file, out_file, loaded, stdout, disk, calls, out_before, first>>

\* lines 60-64
CleanCategorical ==
    /\ pc = "clean_categorical"
    /\ IF clean_categorical_raises(df) # "" THEN Raise(clean_categorical_raises(df))
       ELSE /\ df' = clean_categorical(df)
            /\ pc' = "to_csv"
            /\ Completed("categorical_cleaning")
            /\ UNCHANGED <<raised, raised_row>>
    /\ UNCHANGED not_pipeline
    /\ UNCHANGED <<raw_file, out_file, loaded, stdout, disk, calls, out_before, first>>

\* line 87: df.to_csv(output_path, index=False), written straight to output_path;
\* the OSError of a failed open or a failed write is caught nowhere
ToCsv ==
    /\ pc = "to_csv"
    /\ IF disk = "unwritable"
       THEN /\ Raise("OSError")
            /\ UNCHANGED out_file
       ELSE IF disk = "fails_midway"
       THEN /\ Raise("OSError")
            /\ out_file' \in partial_writes(df, out_file)
       ELSE /\ out_file' = to_csv(df, out_file)
            /\ pc' = "print"
            /\ Completed("export")
            /\ UNCHANGED <<df, raised, raised_row>>
    /\ UNCHANGED not_pipeline
    /\ UNCHANGED <<raw_file, loaded, stdout, disk, calls, out_before, first>>

\* Series.min() / .max() of the dates, NaT left out; NaT when nothing is left
DateMin(col) ==
    LET ds == {col[i].n : i \in {x \in 1..Len(col) : col[x].k = "date"}}
    IN  IF ds = {} THEN NaT
        ELSE [k |-> "date", n |-> CHOOSE a \in ds : \A b \in ds : a <= b, d |-> 1, s |-> <<>>]
DateMax(col) ==
    LET ds == {col[i].n : i \in {x \in 1..Len(col) : col[x].k = "date"}}
    IN  IF ds = {} THEN NaT
        ELSE [k |-> "date", n |-> CHOOSE a \in ds : \A b \in ds : b <= a, d |-> 1, s |-> <<>>]

\* lines 89-93: the three summary lines, then return df
PrintAndReturn ==
    /\ pc = "print"
    /\ stdout' = stdout \o
                 << [line |-> "saved", rows |-> 0, lo |-> NaT, hi |-> NaT],
                    [line |-> "total_rows", rows |-> NRows(df), lo |-> NaT, hi |-> NaT],
                    [line |-> "date_range", rows |-> 0,
                     lo |-> DateMin(getitem(df, order_date)),
                     hi |-> DateMax(getitem(df, order_date))] >>
    /\ pc' = "returned"
    /\ UNCHANGED not_pipeline
    /\ UNCHANGED <<raw_file, out_file, loaded, df, raised, raised_row,
                   disk, calls, out_before, first, stages>>

\* the caller calls clean_retail_orders again with the same two paths
CallAgain ==
    /\ pc = "returned"
    /\ calls > 0
    /\ calls' = calls - 1
    /\ first' = <<[out_file |-> out_file, df |-> df]>>
    /\ out_before' = out_file
    /\ pc' = "load_raw_data"
    /\ loaded' = NoTable
    /\ df' = NoTable
    /\ stages' = <<>>
    /\ UNCHANGED not_pipeline
    /\ UNCHANGED <<raw_file, out_file, raised, raised_row, stdout, disk>>

(***************************** clean_data.py run as a script ***************)
\* what can stand on the command line after the script's name
CommandLines == {<<>>, <<"in.csv", "out.csv">>}

\* the script started: one call, on whatever the paths hold
CliInit ==
    /\ pc = "main"
    /\ argv \in CommandLines
    /\ input_path = ""
    /\ output_path = ""
    /\ exit_code = -1
    /\ raw_file \in SmallFiles
    /\ \E e \in {x \in Environments : x.calls = 0} :
         /\ out_file = e.before
         /\ out_before = e.before
         /\ disk = e.disk
         /\ calls = e.calls
    /\ loaded = NoTable
    /\ df = NoTable
    /\ raised = ""
    /\ raised_row = 0
    /\ stdout = <<>>
    /\ first = <<>>
    /\ stages = <<>>
    /\ NotSeeding
    /\ NotQuerying

\* lines 96-97: the call with the two fixed paths; sys.argv is not read
Main ==
    /\ pc = "main"
    /\ input_path' = "data/raw/orders.csv"
    /\ output_path' = "data/processed/orders_clean.csv"
    /\ pc' = "load_raw_data"
    /\ UNCHANGED <<argv, exit_code>>
    /\ UNCHANGED <<seed_vars, query_vars>>
    /\ UNCHANGED <<raw_file, out_file, loaded, df, raised, raised_row, stdout,
                   disk, calls, out_before, first, stages>>

\* variant: the exception caught and reported, the script ends normally
ExitZero ==
    /\ pc \in {"returned", "raised"}
    /\ exit_code' = 0
    /\ pc' = "exited"
    /\ UNCHANGED <<argv, input_path, output_path>>
    /\ UNCHANGED <<seed_vars, query_vars>>
    /\ UNCHANGED <<raw_file, out_file, loaded, df, raised, raised_row, stdout,
                   disk, calls, out_before, first, stages>>

\* the script ends: status 0 after the call returned, the interpreter's status
\* 1 after an exception nothing caught
Exit ==
    /\ pc \in {"returned", "raised"}
    /\ exit_code' = (IF pc = "returned" THEN 0 ELSE 1)
    /\ pc' = "exited"
    /\ UNCHANGED <<argv, input_path, output_path>>
    /\ UNCHANGED <<seed_vars, query_vars>>
    /\ UNCHANGED <<raw_file, out_file, loaded, df, raised, raised_row, stdout,
                   disk, calls, out_before, first, stages>>

CliNext ==
    \/ Main
    \/ LoadRawData
    \/ Rename
    \/ ToDatetime
    \/ Derive
    \/ CleanCategorical
    \/ ToCsv
    \/ PrintAndReturn
    \/ Exit

CliSpec == CliInit /\ [][CliNext]_vars

(***************************** seed_data.py ********************************)
\* os.getenv(name): the value as a one-element sequence, <<>> for None
getenv(env, name) ==
    IF \E p \in env : p[1] = name
    THEN <<(CHOOSE p \in env : p[1] = name)[2]>>
    ELSE <<>>

\* variant: only None refused, url is None in place of not url
get_database_url_none_only(env) ==
    LET url == getenv(env, "SUPABASE_DATABASE_URL")
    IN  IF url = <<>>
        THEN [raises |-> "ValueError",
              message |-> <<"SUPABASE_DATABASE_URL", " environment variable is not set. ",
                            "Copy .env.example to .env and fill in your Supabase credentials.">>,
              url |-> <<>>]
        ELSE [raises |-> "", message |-> <<>>, url |-> url]

\* seed_data.get_database_url: not url holds of None and of the empty string
get_database_url(env) ==
    LET url == getenv(env, "SUPABASE_DATABASE_URL")
    IN  IF url = <<>> \/ url[1] = ""
        THEN [raises |-> "ValueError",
              message |-> <<"SUPABASE_DATABASE_URL", " environment variable is not set. ",
                            "Copy .env.example to .env and fill in your Supabase credentials.">>,
              url |-> <<>>]
        ELSE [raises |-> "", message |-> <<>>, url |-> url]

\* the lines of a written file that are not blank: read_csv skips blank lines
DataLines(file) == SelectSeq(file.rows, LAMBDA r : r # <<>>)

\* one cell read back: pandas' own NA strings give a missing value, a number
\* its value, other text stays
load_cleaned_cell(v) ==
    IF v.k = "str" /\ v.s \in STR_NA_VALUES THEN NaN ELSE v

\* parse_dates=['order_date'] on a column read back: parsed when every cell
\* that is not missing is a date, left as it was read otherwise
parse_dates(col) ==
    IF \A i \in 1..Len(col) : isna(col[i]) \/ (col[i].k = "str" /\ IsDateText(col[i].s))
    THEN [i \in 1..Len(col) |-> IF isna(col[i]) THEN NaT ELSE ParseDate(col[i].s)]
    ELSE col

\* what pd.read_csv(csv_path, parse_dates=['order_date']) raises
load_cleaned_data_raises(file) ==
    IF ~file.exists THEN "FileNotFoundError"
    ELSE IF file.header = <<>> THEN "EmptyDataError"
    ELSE IF \A j \in 1..Len(file.header) : file.header[j] # order_date THEN "ValueError"
    ELSE ""

\* load_cleaned_data on a file it can read
load_cleaned_data(file) ==
    LET lines == DataLines(file)
        t == [columns |-> file.header,
              data |-> [i \in 1..Len(lines) |->
                           [j \in 1..Len(file.header) |-> load_cleaned_cell(lines[i][j])]]]
    IN  setitem(t, order_date, parse_dates(getitem(t, order_date)))

\* what df.to_sql('orders', engine, if_exists=...) raises: replace drops the
\* table, which the database refuses while a view selects from it; fail
\* refuses a table that is there
to_sql_raises(db, if_exists) ==
    IF if_exists = "replace" /\ db.orders # <<>> /\ db.view THEN "InternalError"
    ELSE IF if_exists = "fail" /\ db.orders # <<>> THEN "ValueError"
    ELSE ""

\* the database after df.to_sql('orders', engine, if_exists=..., index=False)
to_sql(db, t, if_exists) ==
    IF if_exists = "append" /\ db.orders # <<>>
    THEN [db EXCEPT !.orders = <<[columns |-> db.orders[1].columns,
                                  data |-> db.orders[1].data \o t.data]>>]
    ELSE [db EXCEPT !.orders = <<t>>]

\* the columns the order_summary view selects from orders
ViewColumns == {sale_price, profit, profit_margin, order_date}

\* the orders the cleaned files hold: the first line of the sample data, one
\* of another day, one without ship mode
SeedOrders ==
    {BaseOrder,
     [BaseOrder EXCEPT !.order_id = <<"2">>, !.order_date = <<"2", "0", "2", "3", "-", "0", "8", "-", "1", "5">>],
     [BaseOrder EXCEPT !.order_id = <<"3">>, !.ship_mode = <<"n", "/", "a">>, !.order_date = <<"N", "A">>]}

\* what clean_retail_orders writes for a list of orders
CleanFile(orders) ==
    to_csv(transform_columns(load_raw_data(
               RawFile([names |-> RawSchema, fields |-> RawFields], orders))), NoFile)

CleanFiles == {CleanFile(o) : o \in UNION {[1..n -> SeedOrders] : n \in 0..MaxRows}}

\* what csv_path can hold: an export of clean_retail_orders, nothing, a file
\* of no bytes, a file without an order_date column
SeedFiles == CleanFiles \cup {NoFile, EmptyFile, OldFile}

\* the database before the run: new, or seeded by an earlier run
Databases ==
    {NoDatabase,
     [orders |-> <<load_cleaned_data(CleanFile(<<[BaseOrder EXCEPT !.order_id = <<"9">>]>>))>>,
      view |-> TRUE]}

\* the statement at which the database fails, if any
Faults == {"none", "connect", "to_sql", "create_view"}

Environs ==
    { {},
      {<<"DATABASE_URL", "postgresql://user:pw@db.supabase.co:5432/postgres">>},
      {<<"SUPABASE_DATABASE_URL", "">>},
      {<<"SUPABASE_DATABASE_URL", "postgresql://user:pw@db.supabase.co:5432/postgres">>} }

\* clean_retail_orders is not running
NotCleaning ==
    /\ pc = "idle"
    /\ raw_file = NoFile
    /\ out_file = NoFile
    /\ loaded = NoTable
    /\ df = NoTable
    /\ raised = ""
    /\ raised_row = 0
    /\ stdout = <<>>
    /\ disk = "ok"
    /\ calls = 0
    /\ out_before = NoFile
    /\ first = <<>>
    /\ stages = <<>>
    /\ argv = <<>>
    /\ input_path = ""
    /\ output_path = ""
    /\ exit_code = -1

\* seed_database(csv_path) called
SeedInit ==
    /\ seed_pc = "get_database_url"
    /\ environ \in Environs
    /\ csv_file \in SeedFiles
    /\ database \in Databases
    /\ db_before = database
    /\ db_fault \in Faults
    /\ database_url = <<>>
    /\ seed_df = NoTable
    /\ seed_log = <<>>
    /\ seed_raised = NoException
    /\ seed_result = -1
    /\ NotCleaning
    /\ NotQuerying

Call(op, arg, mode) == [op |-> op, arg |-> arg, mode |-> mode]

SeedRaise(e, message) ==
    /\ seed_pc' = "raised"
    /\ seed_raised' = [type |-> e, message |-> message]

\* line 56
GetDatabaseUrl ==
    /\ seed_pc = "get_database_url"
    /\ LET r == get_database_url(environ)
       IN  IF r.raises # ""
           THEN SeedRaise(r.raises, r.message) /\ UNCHANGED database_url
           ELSE /\ database_url' = r.url
                /\ seed_pc' = "create_engine"
                /\ UNCHANGED seed_raised
    /\ UNCHANGED <<environ, csv_file, database, db_before, db_fault, seed_df, seed_log,
                   seed_result>>
    /\ UNCHANGED not_seed

\* line 59: the engine is made, no connection is opened yet
CreateEngine ==
    /\ seed_pc = "create_engine"
    /\ seed_log' = Append(seed_log, Call("create_engine", database_url[1], ""))
    /\ seed_pc' = "load_cleaned_data"
    /\ UNCHANGED <<environ, csv_file, database, db_before, db_fault, database_url, seed_df,
                   seed_raised, seed_result>>
    /\ UNCHANGED not_seed

\* variant: the file read after the with block that drops the view
LoadCleanedDataAfterDrop ==
    /\ seed_pc = "load_cleaned_data"
    /\ database' = [database EXCEPT !.view = FALSE]
    /\ seed_log' = seed_log \o
           << Call("connect", "", ""),
              Call("execute", "DROP VIEW IF EXISTS order_summary CASCADE", ""),
              Call("commit", "", ""), Call("close", "", "") >>
    /\ IF load_cleaned_data_raises(csv_file) # ""
       THEN SeedRaise(load_cleaned_data_raises(csv_file), <<>>) /\ UNCHANGED seed_df
       ELSE /\ seed_df' = load_cleaned_data(csv_file)
            /\ seed_pc' = "to_sql"
            /\ UNCHANGED seed_raised
    /\ UNCHANGED <<environ, csv_file, db_before, db_fault, database_url, seed_result>>
    /\ UNCHANGED not_seed

\* lines 62-64
LoadCleanedData ==
    /\ seed_pc = "load_cleaned_data"
    /\ IF load_cleaned_data_raises(csv_file) # ""
       THEN SeedRaise(load_cleaned_data_raises(csv_file), <<>>) /\ UNCHANGED seed_df
       ELSE /\ seed_df' = load_cleaned_data(csv_file)
            /\ seed_pc' = "drop_view"
            /\ UNCHANGED seed_raised
    /\ UNCHANGED <<environ, csv_file, database, db_before, db_fault, database_url, seed_log,
                   seed_result>>
    /\ UNCHANGED not_seed

\* lines 67-70: the first connection; the view dropped and the drop committed
DropView ==
    /\ seed_pc = "drop_view"
    /\ IF db_fault = "connect"
       THEN /\ SeedRaise("OperationalError", <<>>)
            /\ seed_log' = Append(seed_log, Call("connect", "", ""))
            /\ UNCHANGED database
       ELSE /\ database' = [database EXCEPT !.view = FALSE]
            /\ seed_log' = seed_log \o
                   << Call("connect", "", ""),
                      Call("execute", "DROP VIEW IF EXISTS order_summary CASCADE", ""),
                      Call("commit", "", ""), Call("close", "", "") >>
            /\ seed_pc' = "to_sql"
            /\ UNCHANGED seed_raised
    /\ UNCHANGED <<environ, csv_file, db_before, db_fault, database_url, seed_df,
                   seed_result>>
    /\ UNCHANGED not_seed

\* variant: if_exists='append'
ToSqlAppend ==
    /\ seed_pc = "to_sql"
    /\ seed_log' = Append(seed_log, Call("to_sql", "orders", "append"))
    /\ IF db_fault = "to_sql" \/ to_sql_raises(database, "append") # ""
       THEN /\ SeedRaise(IF db_fault = "to_sql" THEN "OperationalError"
                         ELSE to_sql_raises(database, "append"), <<>>)
            /\ UNCHANGED database
       ELSE /\ database' = to_sql(database, seed_df, "append")
            /\ seed_pc' = "create_view"
            /\ UNCHANGED seed_raised
    /\ UNCHANGED <<environ, csv_file, db_before, db_fault, database_url, seed_df,
                   seed_result>>
    /\ UNCHANGED not_seed

\* lines 73-82: the table replaced in one transaction, rolled back when it fails
ToSql ==
    /\ seed_pc = "to_sql"
    /\ seed_log' = Append(seed_log, Call("to_sql", "orders", "replace"))
    /\ IF db_fault = "to_sql" \/ to_sql_raises(database, "replace") # ""
       THEN /\ SeedRaise(IF db_fault = "to_sql" THEN "OperationalError"
                         ELSE to_sql_raises(database, "replace"), <<>>)
            /\ UNCHANGED database
       ELSE /\ database' = to_sql(database, seed_df, "replace")
            /\ seed_pc' = "create_view"
            /\ UNCHANGED seed_raised
    /\ UNCHANGED <<environ, csv_file, db_before, db_fault, database_url, seed_df,
                   seed_result>>
    /\ UNCHANGED not_seed

\* variant: the view created and the connection closed without conn.commit(),
\* which rolls the statement back
CreateViewNoCommit ==
    /\ seed_pc = "create_view"
    /\ IF db_fault = "create_view"
          \/ \E c \in ViewColumns : ~HasColumn(database.orders[1], c)
       THEN /\ SeedRaise(IF db_fault = "create_view" THEN "OperationalError"
                         ELSE "ProgrammingError", <<>>)
            /\ seed_log' = seed_log \o
                   << Call("connect", "", ""),
                      Call("execute", "CREATE OR REPLACE VIEW order_summary", ""),
                      Call("close", "", "") >>
       ELSE /\ seed_log' = seed_log \o
                   << Call("connect", "", ""),
                      Call("execute", "CREATE OR REPLACE VIEW order_summary", ""),
                      Call("close", "", "") >>
            /\ seed_pc' = "dispose"
            /\ UNCHANGED seed_raised
    /\ UNCHANGED database
    /\ UNCHANGED <<environ, csv_file, db_before, db_fault, database_url, seed_df,
                   seed_result>>
    /\ UNCHANGED not_seed

\* lines 85-100: the second connection; the view created over orders and the
\* creation committed; a statement that fails leaves the with block uncommitted
CreateView ==
    /\ seed_pc = "create_view"
    /\ IF db_fault = "create_view"
          \/ \E c \in ViewColumns : ~HasColumn(database.orders[1], c)
       THEN /\ SeedRaise(IF db_fault = "create_view" THEN "OperationalError"
                         ELSE "ProgrammingError", <<>>)
            /\ seed_log' = seed_log \o
                   << Call("connect", "", ""),
                      Call("execute", "CREATE OR REPLACE VIEW order_summary", ""),
                      Call("close", "", "") >>
            /\ UNCHANGED database
       ELSE /\ database' = [database EXCEPT !.view = TRUE]
            /\ seed_log' = seed_log \o
                   << Call("connect", "", ""),
                      Call("execute", "CREATE OR REPLACE VIEW order_summary", ""),
                      Call("commit", "", ""), Call("close", "", "") >>
            /\ seed_pc' = "dispose"
            /\ UNCHANGED seed_raised
    /\ UNCHANGED <<environ, csv_file, db_before, db_fault, database_url, seed_df,
                   seed_result>>
    /\ UNCHANGED not_seed

\* line 103
Dispose ==
    /\ seed_pc = "dispose"
    /\ seed_log' = Append(seed_log, Call("dispose", "", ""))
    /\ seed_pc' = "return"
    /\ UNCHANGED <<environ, csv_file, database, db_before, db_fault, database_url, seed_df,
                   seed_raised, seed_result>>
    /\ UNCHANGED not_seed

\* line 105
SeedReturn ==
    /\ seed_pc = "return"
    /\ seed_result' = NRows(seed_df)
    /\ seed_pc' = "returned"
    /\ UNCHANGED <<environ, csv_file, database, db_before, db_fault, database_url, seed_df,
                   seed_log, seed_raised>>
    /\ UNCHANGED not_seed

SeedNext ==
    \/ GetDatabaseUrl
    \/ CreateEngine
    \/ LoadCleanedData
    \/ DropView
    \/ ToSql
    \/ CreateView
    \/ Dispose
    \/ SeedReturn

SeedSpec == SeedInit /\ [][SeedNext]_vars

(***************************** utils/database.py ***************************)
None == [k |-> "none", n |-> 0, d |-> 1, s |-> <<>>]

\* utils.database.get_database_url: the secret when streamlit is there and has
\* it, the environment variable otherwise; <<>> for None
dashboard_get_database_url(imp, sec, env) ==
    IF imp.streamlit /\ sec.raises = ""
    THEN <<sec.url>>
    ELSE getenv(env, "SUPABASE_DATABASE_URL")

\* get_database_connection: the connection, or None without psycopg2, without
\* a URL, or when psycopg2.connect raises; and the calls it made
get_database_connection(imp, sec, env, srv) ==
    LET url == dashboard_get_database_url(imp, sec, env)
    IN  IF ~imp.psycopg2 THEN [conn |-> "None", calls |-> <<>>]
        ELSE IF url = <<>> \/ url[1] = "" THEN [conn |-> "None", calls |-> <<>>]
        ELSE IF ~srv.up
        THEN [conn |-> "None",
              calls |-> <<Call("connect", url[1], "")>>
                        \o (IF imp.streamlit THEN <<Call("st.error", "Failed to connect to database", "")>>
                            ELSE <<>>)]
        ELSE [conn |-> "open", calls |-> <<Call("connect", url[1], "")>>]

\* DataFrame.empty: no column or no row
empty(t) == Len(t.columns) = 0 \/ NRows(t) = 0

Helpers ==
    {"get_summary_stats", "get_categories", "get_regions", "get_date_range", "get_segments"}

\* the query each helper passes to run_query
Query(h) ==
    CASE h = "get_summary_stats" -> "SELECT * FROM order_summary"
      [] h = "get_categories" -> "SELECT DISTINCT category FROM orders ORDER BY category"
      [] h = "get_regions" -> "SELECT DISTINCT region FROM orders ORDER BY region"
      [] h = "get_date_range" ->
            "SELECT MIN(order_date) as min_date, MAX(order_date) as max_date FROM orders"
      [] h = "get_segments" -> "SELECT DISTINCT segment FROM orders ORDER BY segment"

min_date == <<"m", "i", "n", "_", "d", "a", "t", "e">>
max_date == <<"m", "a", "x", "_", "d", "a", "t", "e">>
SummaryColumns ==
    << <<"t", "o", "t", "a", "l", "_", "o", "r", "d", "e", "r", "s">>, <<"t", "o", "t", "a", "l", "_", "r", "e", "v", "e", "n", "u", "e">>, <<"t", "o", "t", "a", "l", "_", "p", "r", "o", "f", "i", "t">>, <<"a", "v", "g", "_", "o", "r", "d", "e", "r", "_", "v", "a", "l", "u", "e">>,
       <<"a", "v", "g", "_", "p", "r", "o", "f", "i", "t", "_", "m", "a", "r", "g", "i", "n">>, <<"f", "i", "r", "s", "t", "_", "o", "r", "d", "e", "r", "_", "d", "a", "t", "e">>, <<"l", "a", "s", "t", "_", "o", "r", "d", "e", "r", "_", "d", "a", "t", "e">> >>

\* the first n of the values a column holds, in the order ORDER BY gives
Distinct(c, n) ==
    LET all == CASE c = category -> << <<"F", "u", "r", "n", "i", "t", "u", "r", "e">>, <<"O", "f", "f", "i", "c", "e", " ", "S", "u", "p", "p", "l", "i", "e", "s">>, <<"T", "e", "c", "h", "n", "o", "l", "o", "g", "y">> >>
                 [] c = region -> << <<"C", "e", "n", "t", "r", "a", "l">>, <<"E", "a", "s", "t">>, <<"S", "o", "u", "t", "h">> >>
                 [] c = segment -> << <<"C", "o", "n", "s", "u", "m", "e", "r">>, <<"C", "o", "r", "p", "o", "r", "a", "t", "e">>, <<"H", "o", "m", "e", " ", "O", "f", "f", "i", "c", "e">> >>
    IN  [columns |-> <<c>>, data |-> [i \in 1..n |-> <<Str(all[i])>>]]

\* the tables the database can answer a helper's query with: the distinct
\* values of orders, none when orders has no row; one row of aggregates, of
\* NULL when orders has no row
Answers(h) ==
    CASE h = "get_categories" -> {Distinct(category, n) : n \in 0..MaxRows}
      [] h = "get_regions" -> {Distinct(region, n) : n \in 0..MaxRows}
      [] h = "get_segments" -> {Distinct(segment, n) : n \in 0..MaxRows}
      [] h = "get_date_range" ->
            {[columns |-> <<min_date, max_date>>, data |-> <<r>>] :
                r \in {<<None, None>>, <<Timestamp(2023, 1, 10), Timestamp(2023, 8, 15)>>}}
      [] h = "get_summary_stats" ->
            {[columns |-> SummaryColumns, data |-> <<r>>] :
                r \in {<<Num(0, 1), None, None, None, None, None, None>>,
                       <<Num(3, 1), Num(9724, 10), Num(1224, 10), Num(32413, 100),
                         Num(527, 100), Timestamp(2023, 1, 10), Timestamp(2023, 8, 15)>>}}

\* the database: unreachable; reachable and failing the query, as it does when
\* the table or view is not there; reachable and answering
Servers(h) ==
    {[up |-> FALSE, raises |-> FALSE, answer |-> NoTable],
     [up |-> TRUE, raises |-> TRUE, answer |-> NoTable]}
    \cup {[up |-> TRUE, raises |-> FALSE, answer |-> a] : a \in Answers(h)}

Modules == [streamlit : BOOLEAN, psycopg2 : BOOLEAN]

\* st.secrets["database"]["url"]: no secrets file, no such key, or the URL
Secrets ==
    {[raises |-> "FileNotFoundError", url |-> ""],
     [raises |-> "KeyError", url |-> ""],
     [raises |-> "", url |-> "postgresql://user:pw@db.supabase.co:5432/postgres"]}

QueryEnvirons ==
    { {},
      {<<"SUPABASE_DATABASE_URL", "">>},
      {<<"SUPABASE_DATABASE_URL", "postgresql://user:pw@db.supabase.co:5432/postgres">>} }

\* a helper called: its first two lines pass its query to run_query
QueryInit ==
    /\ query_pc = "run_query"
    /\ helper \in Helpers
    /\ imports \in Modules
    /\ secrets \in Secrets
    /\ query_environ \in QueryEnvirons
    /\ server \in Servers(helper)
    /\ conn = "unassigned"
    /\ query_log = <<>>
    /\ query_df = NoTable
    /\ query_return = NotReturned
    /\ NotCleaning
    /\ NotSeeding

\* lines 73-75
GetDatabaseConnection ==
    /\ query_pc = "run_query"
    /\ LET r == get_database_connection(imports, secrets, query_environ, server)
       IN  /\ conn' = r.conn
           /\ query_log' = query_log \o r.calls
           /\ query_pc' = (IF r.conn = "None" THEN "helper" ELSE "read_sql")
    /\ query_df' = NoTable
    /\ UNCHANGED <<helper, imports, secrets, query_environ, server, query_return>>
    /\ UNCHANGED not_query

\* variant: no except clause, the query's exception leaves run_query and the
\* helper once the finally clause has closed the connection
ReadSqlUncaught ==
    /\ query_pc = "read_sql"
    /\ IF server.raises
       THEN /\ query_log' = query_log \o <<Call("read_sql", Query(helper), ""), Call("close", "", "")>>
            /\ conn' = "closed"
            /\ query_pc' = "raised"
            /\ query_return' = [type |-> "raised", items |-> <<>>]
            /\ UNCHANGED query_df
       ELSE /\ query_log' = Append(query_log, Call("read_sql", Query(helper), ""))
            /\ query_df' = server.answer
            /\ query_pc' = "finally"
            /\ UNCHANGED <<conn, query_return>>
    /\ UNCHANGED <<helper, imports, secrets, query_environ, server>>
    /\ UNCHANGED not_query

\* lines 77-83: the table read, or the empty table when pd.read_sql raises
ReadSql ==
    /\ query_pc = "read_sql"
    /\ query_log' = query_log
           \o <<Call("read_sql", Query(helper), "")>>
           \o (IF server.raises /\ imports.streamlit
               THEN <<Call("st.error", "Query error", "")>> ELSE <<>>)
    /\ query_df' = (IF server.raises THEN NoTable ELSE server.answer)
    /\ query_pc' = "finally"
    /\ UNCHANGED <<helper, imports, secrets, query_environ, server, conn, query_return>>
    /\ UNCHANGED not_query

\* variant: conn.close() as the last statement of the try block, no finally
CloseInTry ==
    /\ query_pc = "finally"
    /\ IF server.raises
       THEN UNCHANGED <<conn, query_log>>
       ELSE /\ query_log' = Append(query_log, Call("close", "", ""))
            /\ conn' = "closed"
    /\ query_pc' = "helper"
    /\ UNCHANGED <<helper, imports, secrets, query_environ, server, query_df, query_return>>
    /\ UNCHANGED not_query

\* lines 84-85, then run_query returns
Close ==
    /\ query_pc = "finally"
    /\ query_log' = Append(query_log, Call("close", "", ""))
    /\ conn' = "closed"
    /\ query_pc' = "helper"
    /\ UNCHANGED <<helper, imports, secrets, query_environ, server, query_df, query_return>>
    /\ UNCHANGED not_query

\* df[c].tolist(), [] when df.empty
tolist(t, c) ==
    [type |-> "list", items |-> IF empty(t) THEN <<>> ELSE getitem(t, c)]

HelperReturns(h, value) ==
    /\ query_pc = "helper"
    /\ helper = h
    /\ query_return' = value
    /\ query_pc' = "returned"
    /\ UNCHANGED <<helper, imports, secrets, query_environ, server, conn, query_log,
                   query_df>>
    /\ UNCHANGED not_query

\* lines 98-101: the first record as a dict, {} when df.empty
GetSummaryStats ==
    HelperReturns("get_summary_stats",
        [type |-> "dict",
         items |-> IF empty(query_df) THEN <<>>
                   ELSE [j \in 1..Len(query_df.columns) |->
                            <<query_df.columns[j], query_df.data[1][j]>>]])

\* lines 114-117
GetCategories == HelperReturns("get_categories", tolist(query_df, category))

\* lines 130-133
GetRegions == HelperReturns("get_regions", tolist(query_df, region))

\* lines 146-149
GetDateRange ==
    HelperReturns("get_date_range",
        [type |-> "tuple",
         items |-> IF empty(query_df) THEN <<None, None>>
                   ELSE <<getitem(query_df, min_date)[1], getitem(query_df, max_date)[1]>>])

\* lines 162-165
GetSegments == HelperReturns("get_segments", tolist(query_df, segment))

QueryNext ==
    \/ GetDatabaseConnection
    \/ ReadSql
    \/ Close
    \/ GetSummaryStats
    \/ GetCategories
    \/ GetRegions
    \/ GetDateRange
    \/ GetSegments

QuerySpec == QueryInit /\ [][QueryNext]_vars

(***************************** clean_retail_orders called ******************)
Next ==
    \/ LoadRawData
    \/ Rename
    \/ ToDatetime
    \/ Derive
    \/ CleanCategorical
    \/ ToCsv
    \/ PrintAndReturn
    \/ CallAgain

Spec == Init /\ [][Next]_vars

(***************************** properties **********************************)
\* transform_columns has returned its table
TransformDone == pc \in {"to_csv", "print", "returned"}
\* to_csv has written the table
Exported == pc \in {"print", "returned"}
\* cell of output row i, and the cell of the same row of the table given to
\* transform_columns (a column it was given keeps its position)
Out(i, name) == getitem(df, name)[i]
In(i, name) == loaded.data[i][ColumnIndex(df, name)]

\* the header names the expected columns in the expected order, whatever the case
HeaderMatchesSchema(h) ==
    /\ Len(h) = Len(RawSchema)
    /\ \A j \in 1..Len(h) : str_lower(h[j]) = str_lower(RawSchema[j])

\* a raw file the pipeline has to accept: the expected header, and a calendar
\* date in every order_date cell
ValidInput(file) ==
    /\ HeaderMatchesSchema(file.header)
    /\ \A i \in 1..Len(file.rows) : IsDateText(file.rows[i][2])

\* C1: row-count preservation.  For every valid raw file of n data rows,
\* load_raw_data, transform_columns and clean_retail_orders each yield a table of
\* n rows and the exported file holds n data rows.
C1_RowCountPreserved ==
    ValidInput(raw_file) =>
        /\ pc # "raised"
        /\ pc # "load_raw_data" => NRows(loaded) = Len(raw_file.rows)
        /\ TransformDone => NRows(df) = Len(raw_file.rows)
        /\ Exported => out_file.exists /\ Len(out_file.rows) = Len(raw_file.rows)

\* what does hold of the row count: a stage that yields a table yields one of
\* as many rows as the raw file has data lines, and the export has as many
RowCountKept ==
    /\ Len(stages) >= 1 => NRows(loaded) = Len(raw_file.rows)
    /\ (Len(stages) >= 2 /\ raised = "") => NRows(df) = Len(raw_file.rows)
    /\ Exported => out_file.exists /\ Len(out_file.rows) = Len(raw_file.rows)

\* C2: for every output row of transform_columns,
\* discount = list_price * discount_percent / 100, sale_price = list_price - discount
\* and profit = sale_price - cost_price, from that row's own input cells.
C2_MonetaryFields ==
    TransformDone =>
        \A i \in 1..NRows(df) :
            LET lp == In(i, list_price)
                dp == In(i, discount_percent)
                cp == In(i, cost_price)
            IN  /\ Out(i, discount) = num_div(num_mul(lp, dp), Num(100, 1))
                /\ Out(i, sale_price) = num_sub(lp, Out(i, discount))
                /\ Out(i, profit) = num_sub(Out(i, sale_price), cp)

\* the documented example: 260, 2, 240 give 5.2, 254.8, 14.8
C2_Witness ==
    /\ pc = "returned"
    /\ \E i \in 1..NRows(df) :
          /\ In(i, list_price) = Num(260, 1) /\ In(i, discount_percent) = Num(2, 1)
          /\ In(i, cost_price) = Num(240, 1)
          /\ Out(i, discount) = Num(52, 10)
          /\ Out(i, sale_price) = Num(2548, 10)
          /\ Out(i, profit) = Num(148, 10)

\* C3: a row whose computed sale_price is 0 has profit_margin exactly 0, not a
\* missing value, and no run ends in a division error.
C3_ZeroSalePrice ==
    /\ raised \notin {"ZeroDivisionError", "FloatingPointError"}
    /\ TransformDone =>
          \A i \in 1..NRows(df) :
              Out(i, sale_price) = Num(0, 1) =>
                  /\ Out(i, profit_margin) = Num(0, 1)
                  /\ ~isna(Out(i, profit_margin))

\* both ways to a zero sale price in one table: nothing charged, fully discounted
C3_Witness ==
    /\ pc = "returned"
    /\ \E i, j \in 1..NRows(df) :
          /\ In(i, list_price) = Num(0, 1) /\ Out(i, sale_price) = Num(0, 1)
          /\ In(j, discount_percent) = Num(100, 1) /\ In(j, list_price) # Num(0, 1)
          /\ Out(j, sale_price) = Num(0, 1)
          /\ Out(i, profit_margin) = Num(0, 1) /\ Out(j, profit_margin) = Num(0, 1)

\* k/100 is x rounded to two decimals, a tie going to the even k
IsRounded2(pm, x) ==
    /\ IsNum(pm) /\ 100 % pm.d = 0
    /\ LET k == pm.n * (100 \div pm.d)
           e == 100 * x.n - k * x.d       \* (x - k/100) * 100 * x.d
       IN  /\ 2 * Abs(e) <= x.d
           /\ 2 * Abs(e) = x.d => k % 2 = 0

\* C4: a row whose sale_price is not 0 has profit_margin = profit / sale_price * 100
\* rounded to two decimals, the same tie-break (to even) in every row; without a
\* sale price there is no margin.
C4_ProfitMargin ==
    TransformDone =>
        \A i \in 1..NRows(df) :
            LET sp == Out(i, sale_price)
                pr == Out(i, profit)
            IN  /\ IsNum(sp) /\ sp.n # 0 =>
                      IsRounded2(Out(i, profit_margin), Num(100 * pr.n * sp.d, pr.d * sp.n))
                /\ ~IsNum(sp) => isna(Out(i, profit_margin))

\* the documented example (5.81) next to a tie (90.625 gives 90.62)
C4_Witness ==
    /\ pc = "returned"
    /\ \E i, j \in 1..NRows(df) :
          /\ In(i, list_price) = Num(260, 1) /\ Out(i, profit_margin) = Num(581, 100)
          /\ Out(j, profit) = Num(29, 1) /\ Out(j, sale_price) = Num(32, 1)
          /\ Out(j, profit_margin) = Num(9062, 100)

\* C5: with a valid order_date, year is the calendar year, month is in 1..12,
\* quarter is in 1..4 and is ((month - 1) div 3) + 1, month_name is the full
\* English name of the month; all four come from the date alone.
C5_DateComponents ==
    TransformDone =>
        \A i \in 1..NRows(df) :
            (In(i, order_date).k = "str" /\ IsDateText(In(i, order_date).s)) =>
                LET t == In(i, order_date).s
                    y == DigitsToNat(SubSeq(t, 1, 4))
                    m == DigitsToNat(SubSeq(t, 6, 7))
                IN  /\ Out(i, year) = Num(y, 1)
                    /\ Out(i, month) = Num(m, 1) /\ m \in 1..12
                    /\ Out(i, quarter).n \in 1..4
                    /\ Out(i, quarter) = Num(((m - 1) \div 3) + 1, 1)
                    /\ Out(i, month_name) = Str(MonthNames[m])

\* 2023-03-01 gives 2023, 3, March, 1; a December date is in quarter 4
C5_Witness ==
    /\ pc = "returned"
    /\ \E i, j \in 1..NRows(df) :
          /\ In(i, order_date) = Str(<<"2", "0", "2", "3", "-", "0", "3", "-", "0", "1">>)
          /\ Out(i, year) = Num(2023, 1) /\ Out(i, month) = Num(3, 1)
          /\ Out(i, month_name) = Str(<<"M", "a", "r", "c", "h">>) /\ Out(i, quarter) = Num(1, 1)
          /\ In(j, order_date) = Str(<<"2", "0", "2", "2", "-", "1", "2", "-", "3", "1">>)
          /\ Out(j, month_name) = Str(<<"D", "e", "c", "e", "m", "b", "e", "r">>) /\ Out(j, quarter) = Num(4, 1)

\* the five placeholder tokens of the input format
PlaceholderTokens == { <<"N", "o", "t", " ", "A", "v", "a", "i", "l", "a", "b", "l", "e">>, <<"u", "n", "k", "n", "o", "w", "n">>, <<"N", "A">>, <<"N", "/", "A">>, <<>> }

\* C6: ingestion marks a cell missing if and only if its raw text is one of the
\* five placeholder tokens, in any column; any other cell keeps its content.
C6_PlaceholdersOnly ==
    pc \notin {"load_raw_data"} =>
        \A i \in 1..Len(raw_file.rows) : \A j \in 1..Len(raw_file.header) :
            LET t == raw_file.rows[i][j]
                v == loaded.data[i][j]
            IN  /\ isna(v) <=> t \in PlaceholderTokens
                /\ t \notin PlaceholderTokens =>
                      \/ v = Str(t)
                      \/ IsNumericText(t) /\ v = ParseNumber(t)

\* C7: cleaning strips and title-cases the present values of category,
\* sub_category and region, and of no other column: every other column the
\* table was given, order_date aside, holds in each row the value it was given.
C7_CategoricalFrame ==
    TransformDone =>
        \A i \in 1..NRows(df) : \A j \in 1..Len(loaded.columns) :
            LET name == df.columns[j]
                old == loaded.data[i][j]
                new == df.data[i][j]
            IN  IF name \in {category, sub_category, region}
                THEN old.k = "str" => new = Str(str_title(str_strip(old.s)))
                ELSE name # order_date => new = old

\* " office supplies " becomes "Office Supplies", " west " becomes "West",
\* "LABELS" becomes "Labels"; the capitals of product_id stay
C7_Witness ==
    /\ pc = "returned"
    /\ \E i \in 1..NRows(df) :
          /\ In(i, category) = Str(<<" ", "o", "f", "f", "i", "c", "e", " ", "s", "u", "p", "p", "l", "i", "e", "s", " ">>)
          /\ Out(i, category) = Str(<<"O", "f", "f", "i", "c", "e", " ", "S", "u", "p", "p", "l", "i", "e", "s">>)
          /\ In(i, region) = Str(<<" ", "w", "e", "s", "t", " ">>) /\ Out(i, region) = Str(<<"W", "e", "s", "t">>)
          /\ In(i, sub_category) = Str(<<"L", "A", "B", "E", "L", "S">>) /\ Out(i, sub_category) = Str(<<"L", "a", "b", "e", "l", "s">>)
          /\ Out(i, product_id) = Str(<<"F", "U", "R", "-", "B", "O", "-", "1", "0", "0", "0", "1", "7", "9", "8">>)
          /\ Out(i, city) = Str(<<"H", "e", "n", "d", "e", "r", "s", "o", "n">>)

\* C8: categorical cleaning tolerates missing values: the stage does not fail
\* on them, a missing category, sub_category or region stays missing, and no row
\* is dropped.
C8_MissingTolerated ==
    /\ ~(pc = "raised" /\ raised = "AttributeError")
    /\ TransformDone =>
          /\ NRows(df) = NRows(loaded)
          /\ \A i \in 1..NRows(df) : \A name \in {category, sub_category, region} :
                isna(In(i, name)) => isna(Out(i, name))

\* b is a with every capital lowered and every space made an underscore
IsSnakeOf(b, a) ==
    /\ Len(b) = Len(a)
    /\ \A i \in 1..Len(a) : b[i] = (IF a[i] = " " THEN "_" ELSE CharLower(a[i]))

\* C9: every column of the input is renamed, lower-cased with spaces made
\* underscores, so no column name of the result holds a space or a capital.
C9_AllColumnsRenamed ==
    pc \in {"to_datetime", "derive", "clean_categorical", "to_csv", "print", "returned"} =>
        /\ Len(df.columns) >= Len(loaded.columns)
        /\ \A j \in 1..Len(loaded.columns) : IsSnakeOf(df.columns[j], loaded.columns[j])
        /\ \A j \in 1..Len(df.columns) : \A i \in 1..Len(df.columns[j]) :
              df.columns[j][i] # " " /\ ~IsUpper(df.columns[j][i])

\* a column outside the expected names comes out renamed like the others
C9_Witness ==
    /\ pc = "returned"
    /\ loaded.columns = Append(RawSchema, <<"N", "o", "t", "e", "s">>)
    /\ df.columns[14] = list_price /\ df.columns[17] = <<"n", "o", "t", "e", "s">>

\* the column list of the export format, in its order
CanonicalColumns ==
    << order_id, order_date, ship_mode, segment, country, city, state, postal_code,
       region, category, sub_category, product_id, cost_price, list_price, quantity,
       discount_percent, discount, sale_price, profit, profit_margin, year, month,
       month_name, quarter >>

\* C10: for a raw file with the expected header, the header of the exported
\* file is the canonical column list, in the canonical order, nothing more.
C10_CanonicalHeader ==
    (HeaderMatchesSchema(raw_file.header) /\ Exported) =>
        /\ out_file.exists
        /\ out_file.header = CanonicalColumns

\* an export over an earlier file, from a header written in capitals
C10_Witness ==
    /\ pc = "returned"
    /\ raw_file.header # RawSchema /\ HeaderMatchesSchema(raw_file.header)
    /\ Len(raw_file.rows) = 1
    /\ out_file.header = CanonicalColumns /\ Len(out_file.rows) = 1

(***************************** failures ************************************)
\* the rows of the loaded table whose order_date cell is present and is no
\* year-month-day date
BadDateRows ==
    LET t == rename_columns(loaded)
    IN  IF ~HasColumn(t, order_date) THEN {}
        ELSE {i \in 1..NRows(t) :
                LET c == getitem(t, order_date)[i]
                IN  ~isna(c) /\ ~(c.k = "str" /\ IsDateText(c.s))}

\* the call failed at date coercion
FailedAtDateCoercion == pc = "raised" /\ stages = <<"ingestion", "rename">>

DateCoercionDone == Len(stages) >= 3

\* the rows of the loaded table whose order_date cell is missing
MissingDateRows ==
    LET t == rename_columns(loaded)
    IN  IF ~HasColumn(t, order_date) THEN {}
        ELSE {i \in 1..NRows(t) : isna(getitem(t, order_date)[i])}

\* C12: a row whose order_date is missing stops the call at date coercion, so
\* no row ever gets a missing year, month, month_name or quarter
C12_MissingDateFails ==
    /\ MissingDateRows # {} => ~DateCoercionDone
    /\ Len(stages) >= 4 =>
          \A i \in 1..NRows(df) :
              /\ ~isna(Out(i, year)) /\ ~isna(Out(i, month))
              /\ ~isna(Out(i, month_name)) /\ ~isna(Out(i, quarter))

\* input_path holds nothing pd.read_csv can read as a table
Unreadable(file) ==
    \/ ~file.exists
    \/ file.header = <<>>
    \/ \E i \in 2..Len(file.rows) : Len(file.rows[i]) > Len(file.rows[i - 1])

\* the call failed inside load_raw_data
FailedAtIngestion == pc = "raised" /\ stages = <<>>

FailedAtExport == pc = "raised" /\ Len(stages) = 5

\* C14: when output_path cannot be written the export fails with a
\* DataAccessError and the caller still gets the fully computed table
C14_TableStillReturned ==
    (FailedAtExport /\ disk = "unwritable") =>
        /\ raised = "DataAccessError"
        /\ df = transform_columns(loaded)

\* C15: after a failed call output_path holds what it held before the call or
\* a complete export, never a part of one
C15_AtomicOrAbsent ==
    pc = "raised" =>
        \/ out_file = out_before
        \/ /\ transform_columns_raises(loaded) = ""
           /\ out_file = to_csv(transform_columns(loaded), out_before)

\* load_raw_data has returned in this call
Ingested == Len(stages) >= 1

RequiredColumns ==
    {order_date, list_price, discount_percent, cost_price, category, sub_category, region}
DerivedColumns ==
    {discount, sale_price, profit, profit_margin, year, month, month_name, quarter}

\* the required columns the loaded table lacks once its columns are renamed
AbsentColumns ==
    LET t == rename_columns(loaded)
    IN  {c \in RequiredColumns : ~HasColumn(t, c)}

\* C16 as stated: with a required column absent after renaming the call fails
\* before any derived field is computed (the KeyError of the absent column is
\* taken for the schema-mismatch error)
C16_FailsBeforeDerivation ==
    (Ingested /\ AbsentColumns # {}) =>
        /\ ~TransformDone
        /\ \A c \in DerivedColumns : ~HasColumn(df, c)

\* C16 amended: with a required column absent after renaming the call never
\* returns a table and writes nothing: it fails at the first statement that
\* reads an absent column, with the KeyError of that column, unless an earlier
\* statement has failed. That is before any derived field is computed when
\* order_date, list_price or discount_percent is absent; when category is absent
\* and derivation succeeds the eight derived fields are computed first
C16_KeyError ==
    LET absent == AbsentColumns
    IN  (Ingested /\ absent # {}) =>
            /\ ~TransformDone
            /\ out_file = out_before
            /\ pc = "raised" => df = NoTable
            /\ absent \cap {order_date, list_price, discount_percent} # {} =>
                  \A c \in DerivedColumns : ~HasColumn(df, c)
            /\ (pc = "raised" /\ order_date \in absent) =>
                  raised = "KeyError" /\ Len(stages) = 2
            /\ (pc = "raised" /\ Len(stages) = 3) => raised \in {"KeyError", "TypeError"}
            /\ (pc = "raised" /\ Len(stages) = 3
                  /\ absent \cap {list_price, discount_percent} # {}) =>
                  raised = "KeyError"
            /\ (pc = "clean_categorical" /\ category \in absent) =>
                  \A c \in DerivedColumns : HasColumn(df, c)
            /\ (pc = "raised" /\ Len(stages) = 4 /\ category \in absent) =>
                  raised = "KeyError"

C16_Witness ==
    /\ pc = "raised"
    /\ raised = "KeyError"
    /\ Len(stages) = 4
    /\ AbsentColumns = {category}
    /\ NRows(loaded) = 1

(***************************** frame, order, repetition ********************)
\* transform_columns has been entered in this call: it is running, has
\* returned, or has raised
TransformEntered ==
    \/ pc \in {"to_datetime", "derive", "clean_categorical", "to_csv", "print", "returned"}
    \/ pc = "raised" /\ Ingested

\* C17: once transform_columns has been entered, whether it then returns or
\* raises, the table it was given still is the table load_raw_data returned
\* (same column names, same columns, same cells), and what it returns is
\* another table
C17_InputNotMutated ==
    TransformEntered =>
        /\ loaded = load_raw_data(raw_file)
        /\ TransformDone => df # loaded

C17_Witness ==
    /\ pc = "raised"
    /\ raised = "AttributeError"
    /\ loaded.columns = RawSchema
    /\ NRows(loaded) = 2

\* the order of section 5
StageOrder ==
    <<"ingestion", "rename", "date_coercion", "derivation", "categorical_cleaning", "export">>

\* the number of stages completed before the statement at pc runs
StagesBefore ==
    [load_raw_data |-> 0, rename |-> 1, to_datetime |-> 2, derive |-> 3,
     clean_categorical |-> 4, to_csv |-> 5, print |-> 6, returned |-> 6]

\* C18: in every call the completed stages are an initial part of ingestion,
\* rename, date coercion, derivation, categorical cleaning, export (none twice,
\* none skipped, none out of order), a stage starts only when all before it
\* have completed, and a call that returns has completed all six
C18_StageOrder ==
    /\ Len(stages) <= Len(StageOrder)
    /\ stages = SubSeq(StageOrder, 1, Len(stages))
    /\ pc # "raised" => Len(stages) = StagesBefore[pc]
    /\ pc = "raised" => Len(stages) < Len(StageOrder)

C18_Witness ==
    /\ pc = "returned"
    /\ stages = StageOrder
    /\ first # <<>>
    /\ NRows(df) = 1

\* C19: a second call on the same raw file and output path leaves the output
\* file as the first call left it and returns an equal table; the file a call
\* leaves holds the header and the rows of its table and nothing of what the
\* path held before
C19_Idempotent ==
    /\ Exported =>
          /\ out_file.exists
          /\ out_file.header = df.columns
          /\ Len(out_file.rows) = NRows(df)
    /\ (Exported /\ first # <<>>) =>
          /\ out_file = first[1].out_file
          /\ df = first[1].df

C19_Witness ==
    /\ pc = "returned"
    /\ first # <<>>
    /\ out_file = first[1].out_file
    /\ Len(out_file.rows) = 1
    /\ df = first[1].df

(***************************** reading the export back *********************)
\* the number of columns before column j of the header that carry its name
EarlierSame(header, j) == Cardinality({h \in 1..(j - 1) : header[h] = header[j]})

\* pd.read_csv(output_path) as the test reads the export back: the first line
\* gives the column names (an empty name becomes Unnamed: j, a repeated name
\* gets .1, .2, ...), every later line that is not blank gives a row
reread_csv(file) ==
    [columns |->
        [j \in 1..Len(file.header) |->
            IF file.header[j] = <<>> THEN <<"U", "n", "n", "a", "m", "e", "d", ":", " ">> \o NatToDigits(j - 1)
            ELSE IF EarlierSame(file.header, j) > 0
            THEN file.header[j] \o <<".">> \o NatToDigits(EarlierSame(file.header, j))
            ELSE file.header[j]],
     nrows |-> Cardinality({i \in 1..Len(file.rows) : file.rows[i] # <<>>})]

\* C20: after a call that returned, the output file exists and reading it back
\* gives as many rows as the returned table has and the same column names in
\* the same order
C20_RoundTrip ==
    pc = "returned" =>
        /\ out_file.exists
        /\ reread_csv(out_file).nrows = NRows(df)
        /\ reread_csv(out_file).columns = df.columns

\* no two columns of the table carry the same name
DistinctNames(t) ==
    \A a, b \in 1..Len(t.columns) : t.columns[a] = t.columns[b] => a = b

\* C20 amended: after a call that returned, the output file exists and reading
\* it back gives as many rows and as many columns as the returned table has;
\* the column names are the same in the same order exactly when no two columns
\* of the returned table carry the same name
C20_RoundTripDistinctNames ==
    pc = "returned" =>
        /\ out_file.exists
        /\ reread_csv(out_file).nrows = NRows(df)
        /\ Len(reread_csv(out_file).columns) = Len(df.columns)
        /\ DistinctNames(df) <=> reread_csv(out_file).columns = df.columns

C20_Witness ==
    /\ pc = "returned"
    /\ NRows(df) = 2
    /\ reread_csv(out_file).nrows = 2
    /\ reread_csv(out_file).columns = df.columns
    /\ Len(df.columns) = 24

(***************************** the script **********************************)
\* whatever was printed is the summary of the table just written: the three
\* lines, the row count of the table, the first and last of its dates, and the
\* output path holds the export of that table
SummaryAfterWrite ==
    stdout # <<>> =>
        /\ pc \in {"returned", "exited"}
        /\ raised = ""
        /\ out_file = to_csv(df, out_before)
        /\ Len(stdout) = 3
        /\ stdout[2].rows = NRows(df)
        /\ stdout[3].lo = DateMin(getitem(df, order_date))
        /\ stdout[3].hi = DateMax(getitem(df, order_date))

\* the process ends with 0 and the summary when the call returned, with a
\* status other than 0 and no summary when a stage raised
ExitStatus ==
    /\ pc # "exited" => exit_code = -1
    /\ pc = "exited" =>
          IF raised = ""
          THEN exit_code = 0 /\ Len(stdout) = 3 /\ Len(stages) = 6
          ELSE exit_code # 0 /\ exit_code # -1 /\ stdout = <<>>

\* C21 as stated: the two paths come from the command line, the summary is
\* printed only after the file was written, and the exit status tells success
\* from failure
C21_PathsFromCommandLine ==
    /\ (pc # "main" /\ Len(argv) = 2) =>
          input_path = argv[1] /\ output_path = argv[2]
    /\ SummaryAfterWrite
    /\ ExitStatus

\* C21 amended: the script reads no argument, it calls clean_retail_orders with
\* the paths data/raw/orders.csv and data/processed/orders_clean.csv whatever
\* the command line holds; the summary is printed only after the file was
\* written, and the exit status tells success from failure
C21_FixedPaths ==
    /\ pc # "main" =>
          /\ input_path = "data/raw/orders.csv"
          /\ output_path = "data/processed/orders_clean.csv"
    /\ SummaryAfterWrite
    /\ ExitStatus

C21_Witness ==
    /\ pc = "exited"
    /\ exit_code = 0
    /\ argv = <<"in.csv", "out.csv">>
    /\ input_path = "data/raw/orders.csv"
    /\ stdout[2].rows = 1
    /\ stdout[3].lo.k = "date"

(***************************** row independence ****************************)
\* the table that holds row i of t alone
OneRow(t, i) == [columns |-> t.columns, data |-> <<t.data[i]>>]

\* C22: when transform_columns returns, each row of its table is what lines
\* 33-62 make of that row of the input taken alone, so two inputs that agree on
\* row i and both transform give the same output row i
C22_RowIndependence ==
    pc = "to_csv" =>
        \A i \in 1..NRows(df) : <<df.data[i]>> = transform_columns(OneRow(loaded, i)).data

C22_Witness ==
    /\ pc = "to_csv"
    /\ NRows(df) = 2
    /\ Out(1, profit) # Out(2, profit)
    /\ Out(1, category) # Out(2, category)
    /\ isna(Out(1, category))

(***************************** the output path *****************************)
\* C27: until df.to_csv is reached the output path holds what it held when the
\* call began, so a call that ends in load_raw_data or transform_columns
\* raising leaves an earlier file as it was and an absent one absent
C27_OutputUntouched ==
    /\ pc \in {"load_raw_data", "rename", "to_datetime", "derive", "clean_categorical",
               "to_csv"} => out_file = out_before
    /\ (pc = "raised" /\ ~FailedAtExport) => out_file = out_before

C27_Witness ==
    /\ pc = "raised"
    /\ Len(stages) = 4
    /\ out_before = OldFile
    /\ out_file = OldFile
    /\ NRows(loaded) = 1

(***************************** seed_database ********************************)
\* the value SUPABASE_DATABASE_URL is set to, <<>> when it is not set
Configured == getenv(environ, "SUPABASE_DATABASE_URL")

\* seed_database ended in get_database_url
FailedAtUrl == seed_pc = "raised" /\ seed_log = <<>>

\* C23: get_database_url returns the value of SUPABASE_DATABASE_URL when it is
\* set to a non-empty string; it raises ValueError with a message that names
\* SUPABASE_DATABASE_URL when the variable is unset or empty; it never returns
\* an empty or absent URL
C23_UrlOrValueError ==
    /\ seed_pc \notin {"idle", "get_database_url"} =>
          IF Configured # <<>> /\ Configured[1] # ""
          THEN database_url = Configured /\ ~FailedAtUrl
          ELSE /\ FailedAtUrl
               /\ seed_raised.type = "ValueError"
               /\ \E k \in 1..Len(seed_raised.message) :
                      seed_raised.message[k] = "SUPABASE_DATABASE_URL"
               /\ database_url = <<>>
    /\ database_url # <<>> => database_url[1] # ""

C23_Witness ==
    /\ FailedAtUrl
    /\ Configured = <<"">>
    /\ seed_raised.type = "ValueError"

\* the positions of the log at which op was called
CallsOf(op) == {k \in 1..Len(seed_log) : seed_log[k].op = op}

\* C24: after seed_database returned, exactly one engine was created, with the
\* configured URL; the table read from the cleaned file was loaded exactly
\* once, into the table named orders, in replace mode, so that orders holds
\* that table and nothing else; the value returned is the number of data rows
\* of the cleaned file
C24_SuccessfulSeed ==
    seed_pc = "returned" =>
        /\ Cardinality(CallsOf("create_engine")) = 1
        /\ \A k \in CallsOf("create_engine") : <<seed_log[k].arg>> = Configured
        /\ Cardinality(CallsOf("to_sql")) = 1
        /\ \A k \in CallsOf("to_sql") :
               seed_log[k].arg = "orders" /\ seed_log[k].mode = "replace"
        /\ database.orders = <<load_cleaned_data(csv_file)>>
        /\ seed_result = Cardinality({i \in 1..Len(csv_file.rows) : csv_file.rows[i] # <<>>})
        /\ seed_raised = NoException

C24_Witness ==
    /\ seed_pc = "returned"
    /\ seed_result = 2
    /\ db_before.orders # <<>>
    /\ NRows(database.orders[1]) = 2
    /\ getitem(database.orders[1], order_date)[1].k = "date"
    /\ isna(getitem(database.orders[1], ship_mode)[2])

\* the statements executed, the commits, the table load and the disposal, in
\* the order they were made
DatabaseOperations ==
    LET made == SelectSeq(seed_log, LAMBDA c : c.op \in {"execute", "commit", "to_sql", "dispose"})
    IN  [k \in 1..Len(made) |-> <<made[k].op, made[k].arg, made[k].mode>>]

\* C26: when seed_database has returned, its database operations were, in this
\* order: drop view order_summary, commit, replace table orders, create view
\* order_summary, commit, dispose; at no time was the engine disposed twice,
\* or disposed while the view was not there; on return the view exists and
\* orders holds the table just loaded
C26_OperationOrder ==
    /\ seed_pc = "returned" =>
          /\ DatabaseOperations =
                << <<"execute", "DROP VIEW IF EXISTS order_summary CASCADE", "">>,
                   <<"commit", "", "">>,
                   <<"to_sql", "orders", "replace">>,
                   <<"execute", "CREATE OR REPLACE VIEW order_summary", "">>,
                   <<"commit", "", "">>,
                   <<"dispose", "", "">> >>
          /\ database.view
          /\ database.orders = <<seed_df>>
    /\ Cardinality(CallsOf("dispose")) <= 1
    /\ CallsOf("dispose") # {} => database.view /\ database.orders = <<seed_df>>

C26_Witness ==
    /\ seed_pc = "returned"
    /\ db_before.view
    /\ database.view
    /\ database.orders # db_before.orders
    /\ seed_log[Len(seed_log)].op = "dispose"

\* csv_path holds nothing pd.read_csv(csv_path, parse_dates=['order_date']) can
\* read: no file, no header line, or no order_date column
CannotBeRead ==
    \/ ~csv_file.exists
    \/ csv_file.header = <<>>
    \/ \A j \in 1..Len(csv_file.header) : csv_file.header[j] # order_date

\* C29: while SUPABASE_DATABASE_URL is not set, no engine is created, no
\* statement is executed and no table is loaded; while the cleaned file cannot
\* be read, no statement is executed and no table is loaded, the run gets no
\* further than the read, where it ends with the read's exception; in both
\* cases the view and the table are as they were before the call
C29_ChecksBeforeMutation ==
    /\ Configured = <<>> =>
          /\ CallsOf("create_engine") = {}
          /\ CallsOf("connect") = {} /\ CallsOf("execute") = {} /\ CallsOf("to_sql") = {}
          /\ database = db_before
          /\ seed_pc \in {"get_database_url", "raised"}
    /\ CannotBeRead =>
          /\ CallsOf("connect") = {} /\ CallsOf("execute") = {} /\ CallsOf("to_sql") = {}
          /\ database = db_before
          /\ seed_pc \in {"get_database_url", "create_engine", "load_cleaned_data", "raised"}
          /\ (seed_pc = "raised" /\ ~FailedAtUrl) =>
                 seed_raised.type \in {"FileNotFoundError", "EmptyDataError", "ValueError"}

C29_Witness ==
    /\ seed_pc = "raised"
    /\ CannotBeRead
    /\ CallsOf("create_engine") = {1}
    /\ seed_raised.type = "FileNotFoundError"
    /\ db_before.view
    /\ database = db_before

(***************************** the dashboard helpers ************************)
\* run_query has returned to the helper
RunQueryReturned == query_pc \in {"helper", "returned"}

\* what each helper gives when it has nothing to show
EmptyValue(h) ==
    CASE h = "get_summary_stats" -> [type |-> "dict", items |-> <<>>]
      [] h = "get_date_range" -> [type |-> "tuple", items |-> <<None, None>>]
      [] OTHER -> [type |-> "list", items |-> <<>>]

\* C25: no helper ends with an exception; run_query returns an empty table
\* when psycopg2 is missing, when the database is unreachable, when no
\* connection was obtained for any other reason, and when the query raised;
\* on an empty table get_summary_stats returns {}, get_categories, get_regions
\* and get_segments return [], get_date_range returns (None, None)
C25_NoHelperRaises ==
    /\ query_pc # "raised" /\ query_return.type # "raised"
    /\ RunQueryReturned =>
          /\ (~imports.psycopg2 \/ ~server.up) => conn = "None"
          /\ (conn = "None" \/ server.raises) => query_df = NoTable
    /\ query_pc = "returned" =>
          /\ query_return.type \in {"dict", "list", "tuple"}
          /\ (Len(query_df.columns) = 0 \/ Len(query_df.data) = 0) =>
                 query_return = EmptyValue(helper)

C25_Witness ==
    /\ query_pc = "returned"
    /\ helper = "get_date_range"
    /\ server.raises
    /\ conn = "closed"
    /\ query_return.items = <<None, None>>

\* the positions of the dashboard's log at which op was called
QueryCallsOf(op) == {k \in 1..Len(query_log) : query_log[k].op = op}

\* C28: once run_query has returned, a connection it obtained has been closed
\* exactly once, whether pd.read_sql returned or raised, and when it obtained
\* none, nothing was closed and no query was executed; at no time is a
\* connection closed twice, or closed before the query was executed on it
C28_ClosedExactlyOnce ==
    /\ RunQueryReturned =>
          IF conn = "None"
          THEN QueryCallsOf("close") = {} /\ QueryCallsOf("read_sql") = {}
          ELSE /\ conn = "closed"
               /\ Cardinality(QueryCallsOf("close")) = 1
               /\ Cardinality(QueryCallsOf("read_sql")) = 1
    /\ Cardinality(QueryCallsOf("close")) <= 1
    /\ \A c \in QueryCallsOf("close") : \E r \in QueryCallsOf("read_sql") : r < c
    /\ conn = "closed" <=> QueryCallsOf("close") # {}

C28_Witness ==
    /\ query_pc = "returned"
    /\ helper = "get_categories"
    /\ server.raises
    /\ imports.streamlit
    /\ QueryCallsOf("st.error") # {}
    /\ query_log[Len(query_log)].op = "close"

=============================================================================
